---- MODULE Spec2Model ----
(***************************************************************************)
(* Model of the image studio's client-side state machines:                 *)
(*   - App (src/App.tsx): the single-image editor - edit history, the      *)
(*     asynchronous edit handlers, preset replay, undo/redo/reset/exit.     *)
(*   - BatchEditor (src/unnamed/part_007): the batch job scheduler.         *)
(*                                                                         *)
(* React semantics kept by the model: a handler runs against the state of  *)
(* the render in which it was invoked.  An async handler that resumes      *)
(* after an await still reads the history / historyIndex it closed over    *)
(* when it was invoked, and its setState calls are absolute writes.  The    *)
(* values closed over are carried in the record of the pending call.       *)
(* Functional updates (setImageJobs(prev => ...)) read the state current   *)
(* at the time they are applied.                                           *)
(***************************************************************************)
EXTENDS Integers, Sequences, FiniteSets, TLC

(* ------------------------------ bounds -------------------------------- *)
\* artifacts (File objects) that may be created in one behaviour
MaxFiles == 3
\* calls to the external model that may be pending at once in the editor
MaxInflight == 2
\* files one selection in the batch editor's file picker may hold
MaxJobs == 4
\* presets the presets panel may hold
MaxPresets == 2
\* successful edits in one behaviour of SpecEdits
MaxEdits == 1
\* different prompts the user types on the start screen
MaxPrompts == 21
\* times the user types a prompt that was typed before
MaxRetyped == 1
\* widths and heights of images and of their boxes on the page, in pixels
MaxSide == 3
\* pixels the expand panel adds
MaxPixels == 2
\* points of a lasso polygon
MaxPoints == 4

(* --------------------------- program constants ------------------------ *)
CONCURRENT_LIMIT == 3

TABS == <<"suggestions", "magic-edit", "lasso-select", "style-transfer",
          "presets", "adjust", "filters", "remove-bg", "crop", "expand",
          "upscale">>

TabSet == {TABS[i] : i \in 1..Len(TABS)}

\* null for `error`
NoError == ""

\* an absent actionDescription (undefined)
NoDescription == ""

\* the prompt the user types / picks in a panel
Prompts == {"noir"}

VARIABLES
  \* ---- App state (useState hooks of App)
  appMode, history, historyIndex, isLoading, error, editHotspot, maskFile,
  activeTab, showVariationsModal, showGifModal, originalPrompt,
  \* ---- the text of the Magic Edit input
  prompt,
  \* ---- PresetsPanel state, persisted in localStorage
  presets,
  \* ---- external calls of App handlers that have not resolved yet, in
  \*      invocation order, each with the values its handler closed over
  pending,
  \* ---- next fresh artifact identity
  nextFile,
  \* ---- BatchEditor state
  imageJobs, isProcessing, queue, workers,
  \* ---- the entries of the archive the browser saved last
  downloaded,
  \* ---- localStorage 'ai_dream_studio_prompt_history' and StartScreen's
  \*      promptHistory
  storedPrompts, promptHistory,
  \* ---- how many different prompts the user has typed, and how many times
  \*      one that was typed before
  promptsTyped, promptsRetyped,
  \* ---- the values a computation of a handler starts from, and what it
  \*      has computed from them
  args, result,
  \* ---- LassoCanvas state: how many points the polygon has (their
  \*      coordinates play no part here) and whether it was completed
  points, isComplete,
  \* ---- App's editSuggestions and the getEditSuggestions calls that have
  \*      not settled, each the file it was asked about
  editSuggestions, suggesting,
  \* ---- the language of the strings on display, App's currentLanguage,
  \*      localStorage 'ui_language' and the languages that have a
  \*      'translated_ui_<code>' entry
  uiStrings, currentLanguage, storedLanguage, translationCache

appVars == <<appMode, history, historyIndex, isLoading, error, editHotspot,
             maskFile, activeTab, showVariationsModal, showGifModal,
             originalPrompt, prompt, presets, pending, nextFile>>
batchVars == <<imageJobs, isProcessing, queue, workers, downloaded>>
promptVars == <<storedPrompts, promptHistory, promptsTyped, promptsRetyped>>
calcVars == <<args, result>>
lassoVars == <<points, isComplete>>
suggestVars == <<editSuggestions, suggesting>>
langVars == <<uiStrings, currentLanguage, storedLanguage, translationCache>>
uiVars == <<promptVars, calcVars, lassoVars, suggestVars, langVars>>
vars == <<appVars, batchVars, uiVars>>

(* ------------------------------ helpers ------------------------------- *)
Min(a, b) == IF a < b THEN a ELSE b
Max(a, b) == IF a > b THEN a ELSE b

\* Array.prototype.slice(from, to) for 0 <= from, on a 1-based sequence
Slice(s, from, to) ==
  LET hi == Min(Max(to, 0), Len(s))
  IN  IF from >= hi THEN <<>> ELSE [k \in 1..(hi - from) |-> s[from + k]]

\* Strings the code takes apart are sequences of characters.
\* String.prototype.trim: white space is removed at both ends
IsWhiteSpace(c) == c = " "
RECURSIVE trimStart(_)
trimStart(str) ==
  IF str # <<>> /\ IsWhiteSpace(Head(str)) THEN trimStart(Tail(str)) ELSE str
RECURSIVE trimEnd(_)
trimEnd(str) ==
  IF str # <<>> /\ IsWhiteSpace(str[Len(str)])
    THEN trimEnd(SubSeq(str, 1, Len(str) - 1)) ELSE str
trim(str) == trimEnd(trimStart(str))

\* "${text}" inside a template literal
Quoted(text) == "\"" \o text \o "\""

RemoveAt(s, i) == [k \in 1..(Len(s) - 1) |-> IF k < i THEN s[k] ELSE s[k + 1]]

HistoryItem(file, actionDescription) ==
  [file |-> file, actionDescription |-> actionDescription]

\* history[i] ?? null, with a 0-based index
InRange(h, i) == i >= 0 /\ i < Len(h)
\* currentImage / originalImage are null exactly when these are FALSE
HasCurrentImage == InRange(history, historyIndex)
HasOriginalImage == Len(history) > 0

canUndo == historyIndex > 0
\* a redo test that takes the length for the last index
canRedo_OffByOne == historyIndex < Len(history)
canRedo == historyIndex < Len(history) - 1

\* the cursor after handleUndo / handleRedo: setHistoryIndex is called only
\* when canUndo / canRedo holds
undoIndex == IF canUndo THEN historyIndex - 1 ELSE historyIndex
redoIndex == IF canRedo THEN historyIndex + 1 ELSE historyIndex

(* ------------------ geminiService / data URL conversion --------------- *)
\* The part of a GenerateContentResponse that handleApiResponse reads.
Response(blockReason, inlineData, finishReason, mimeType) ==
  [blockReason |-> blockReason, inlineData |-> inlineData,
   finishReason |-> finishReason, mimeType |-> mimeType]

\* one response for each way through handleApiResponse and dataURLtoFile:
\* an image, a blocked prompt, a stop for safety, no image at all, and an
\* image part whose MIME type is empty
Responses ==
  { Response(FALSE, TRUE, "STOP", "image/png"),
    Response(TRUE, FALSE, "STOP", "image/png"),
    Response(FALSE, FALSE, "SAFETY", "image/png"),
    Response(FALSE, FALSE, "STOP", "image/png"),
    Response(FALSE, TRUE, "STOP", "") }

\* A data URL, reduced to what dataURLtoFile inspects: whether it has a
\* comma separator and the text between ':' and ';' of its header.
DataUrl(comma, mimeType) == [comma |-> comma, mimeType |-> mimeType]
NoUrl == DataUrl(FALSE, "")

Ok(v) == [ok |-> TRUE, value |-> v, message |-> ""]
Err(m) == [ok |-> FALSE, value |-> NoUrl, message |-> m]

\* returns the data URL `data:${mimeType};base64,${data}` or throws
handleApiResponse(response) ==
  IF response.blockReason THEN Err("Request was blocked.")
  ELSE IF response.inlineData THEN Ok(DataUrl(TRUE, response.mimeType))
  ELSE IF response.finishReason # "STOP" THEN Err("stopped unexpectedly.")
  ELSE Err("The AI model did not return an image.")

\* dataURLtoFile: throws unless the URL has a comma and a non-empty MIME type
dataURLtoFile(dataurl) ==
  IF ~dataurl.comma THEN Err("Invalid data URL")
  ELSE IF dataurl.mimeType = "" THEN Err("Could not parse MIME type from data URL")
  ELSE Ok(dataurl)

\* How one call to the external model ends: the request itself rejects
\* (network, quota) or it returns a response.
Calls ==
  [rejects : {FALSE}, response : Responses]
    \cup {[rejects |-> TRUE, response |-> Response(FALSE, FALSE, "STOP", "image/png")]}

\* what `await generateXxx(...)` followed by dataURLtoFile yields
CallResult(call) ==
  IF call.rejects THEN Err("request failed")
  ELSE LET r == handleApiResponse(call.response)
       IN  IF r.ok THEN dataURLtoFile(r.value) ELSE r

(* --------------------------- history store ---------------------------- *)
\* a push that keeps the redo tail: history.slice(0, historyIndex + 1) left out
addImageToHistory_NoTruncate(h, idx, newImageFile, actionDescription) ==
  LET newHistory == Append(h, HistoryItem(newImageFile, actionDescription))
  IN  [history |-> newHistory, historyIndex |-> Len(newHistory) - 1]

\* addImageToHistory, as a function of the history and historyIndex the
\* callback closed over
addImageToHistory(h, idx, newImageFile, actionDescription) ==
  LET newHistory == Append(Slice(h, 0, idx + 1),
                           HistoryItem(newImageFile, actionDescription))
  IN  [history |-> newHistory, historyIndex |-> Len(newHistory) - 1]

(* ------------------------ pending external calls ---------------------- *)
\* The continuation of an async handler suspended at an await.  hist and idx
\* are the history and historyIndex of the render the handler was invoked
\* in (what its addImageToHistory / history closure reads).  stale records
\* that the editor was exited, or a new session started, since invocation;
\* results lists the artifacts a preset replay has produced so far.  step,
\* actions and image are i, preset.actions and imageToProcess of the replay.
Op(handler, phase, desc, actions, image) ==
  [handler |-> handler, phase |-> phase, desc |-> desc,
   hist |-> history, idx |-> historyIndex, stale |-> FALSE,
   step |-> 0, actions |-> actions, image |-> image, results |-> <<>>]

EditHandlers == {"handleGenerate", "handleApplyFilter", "handleApplyAdjustment",
                 "handleRemoveBackground", "handleUpscale", "handleExpand",
                 "handleStyleTransfer", "handleLassoGenerate"}

\* the text each catch block puts in front of the error message
ErrorPrefix(handler) ==
  CASE handler = "handleGenerate" -> "Failed to generate the image. "
    [] handler = "handleGenerateFromText" -> "Failed to generate the image. "
    [] handler = "handleGenerateVariations" -> "Failed to generate variations. "
    [] handler = "handleGenerateGif" -> "Failed to generate animation. "
    [] handler = "handleApplyFilter" -> "Failed to apply the filter. "
    [] handler = "handleApplyAdjustment" -> "Failed to apply the adjustment. "
    [] handler = "handleRemoveBackground" -> "Failed to remove background. "
    [] handler = "handleUpscale" -> "Failed to upscale the image. "
    [] handler = "handleExpand" -> "Failed to expand the image. "
    [] handler = "handleStyleTransfer" -> "Failed to transfer style. "
    [] handler = "handleLassoGenerate" -> "Failed to apply lasso edit. "
    [] OTHER -> "Failed. "

MarkStale(ops) == [k \in 1..Len(ops) |-> [ops[k] EXCEPT !.stale = TRUE]]

CurrentFile == history[historyIndex + 1].file

(* ----------------------------- UI gating ------------------------------ *)
\* no modal (fixed, full-screen, z-50) lies over the page
NoModal == ~showVariationsModal /\ ~showGifModal
\* renderSingleImageEditor reaches its main return: the image, the tab bar,
\* the active panel and the button row are rendered
EditorShown ==
  appMode = "single-image" /\ HasCurrentImage /\ error = NoError
\* the controls of a panel that takes isLoading are enabled
PanelEnabled(tab) ==
  EditorShown /\ NoModal /\ activeTab = tab /\ ~isLoading
\* the keydown listener is attached and does not return early
KeyboardEnabled == appMode = "single-image" /\ ~isLoading
\* StartScreen is rendered
StartShown ==
  appMode = "start" /\ ~isLoading /\ error = NoError /\ NoModal

\* useEffect([activeTab]): runs when activeTab changed
MaskAfterTab(newTab) ==
  IF newTab # activeTab /\ newTab # "lasso-select" THEN FALSE ELSE maskFile

(* ------------------------------- Init --------------------------------- *)
\* What localStorage 'pixshop_presets' may hold when the page loads: nothing,
\* or one preset saved in an earlier visit from two or from three edits.
StoredPresets ==
  { <<>>,
    << [name |-> <<"l", "o", "o", "k">>, actions |-> <<"Filter: \"noir\"", "Upscale 2x">>] >>,
    << [name |-> <<"l", "o", "o", "k">>, actions |-> <<"Filter: \"noir\"", "Crop", "Upscale 2x">>] >> }

\* what the name input of the presets panel may hold
PresetNames == {<<"l", "o", "o", "k">>, <<"l", "o", "o", "k", " ">>, <<" ">>, <<>>}

\* no job
NoJob == [id |-> "", name |-> "", pos |-> 0]
IdleWorkers == [w \in 1..CONCURRENT_LIMIT |-> [state |-> "idle", job |-> NoJob]]

AppInit ==
  /\ appMode = "start"
  /\ history = <<>>
  /\ historyIndex = -1
  /\ isLoading = FALSE
  /\ error = NoError
  /\ editHotspot = FALSE
  /\ maskFile = FALSE
  /\ activeTab = "suggestions"
  /\ showVariationsModal = FALSE
  /\ showGifModal = FALSE
  /\ originalPrompt = FALSE
  /\ prompt = ""
  /\ presets \in StoredPresets
  /\ pending = <<>>
  /\ nextFile = 0

BatchInit ==
  /\ imageJobs = <<>>
  /\ isProcessing = FALSE
  /\ queue = <<>>
  /\ workers = IdleWorkers
  /\ downloaded = {}

PromptsInit ==
  /\ storedPrompts = <<>>
  /\ promptHistory = <<>>
  /\ promptsTyped = 0
  /\ promptsRetyped = 0

\* no computation is looked at
NoArgs == [of |-> "none"]
NoResult == [done |-> FALSE]

\* LassoCanvas as mounted, no suggestions asked for yet, and a first
\* visit: English strings, nothing in localStorage
PanelsInit ==
  /\ points = 0
  /\ isComplete = FALSE
  /\ editSuggestions = <<>>
  /\ suggesting = {}
  /\ uiStrings = "en"
  /\ currentLanguage = "en"
  /\ storedLanguage = ""
  /\ translationCache = {}

UiInit ==
  /\ PromptsInit
  /\ PanelsInit
  /\ args = NoArgs
  /\ result = NoResult

Init == AppInit /\ BatchInit /\ UiInit

(* ------------------------ session start and end ----------------------- *)
\* handleGetSuggestions(file) up to its await
handleGetSuggestions(file) ==
  /\ editSuggestions' = <<>>
  /\ suggesting' = suggesting \cup {file}

\* the state writes of handleImageUpload(file)
ImageUploadWrites(file) ==
  /\ error' = NoError
  /\ history' = <<HistoryItem(file, NoDescription)>>
  /\ historyIndex' = 0
  /\ editHotspot' = FALSE
  /\ activeTab' = "suggestions"
  /\ maskFile' = MaskAfterTab("suggestions")
  /\ appMode' = "single-image"
  /\ showVariationsModal' = FALSE
  /\ handleGetSuggestions(file)

\* StartScreen onFileSelect -> handleFileSelect -> handleImageUpload
handleImageUpload ==
  /\ StartShown
  /\ nextFile < MaxFiles
  /\ ImageUploadWrites(nextFile)
  /\ originalPrompt' = FALSE
  /\ nextFile' = nextFile + 1
  /\ pending' = MarkStale(pending)
  /\ UNCHANGED <<isLoading, showGifModal, prompt, presets, batchVars, promptVars,
                 calcVars, lassoVars, langVars>>

\* handleGenerateFromText up to its await
handleGenerateFromText ==
  /\ StartShown
  /\ Len(pending) < MaxInflight
  /\ isLoading' = TRUE
  /\ error' = NoError
  /\ pending' = Append(pending, Op("handleGenerateFromText", "call", NoDescription, <<>>, 0))
  /\ UNCHANGED <<appMode, history, historyIndex, editHotspot, maskFile, activeTab,
                 showVariationsModal, showGifModal, originalPrompt, prompt, presets,
                 nextFile, batchVars, uiVars>>

\* generateImageFromText: a data:image/png URL, or it throws
TextCallResult(call) ==
  IF call.rejects THEN Err("request failed")
  ELSE IF ~call.response.inlineData THEN Err("The AI model did not return an image.")
  ELSE dataURLtoFile(DataUrl(TRUE, "image/png"))

\* handleGenerateFromText after its await, try branch
TextResolves(i, call) ==
  /\ i \in 1..Len(pending)
  /\ pending[i].handler = "handleGenerateFromText"
  /\ TextCallResult(call).ok
  /\ nextFile < MaxFiles
  /\ ImageUploadWrites(nextFile)
  /\ originalPrompt' = TRUE
  /\ nextFile' = nextFile + 1
  /\ isLoading' = FALSE
  /\ pending' = MarkStale(RemoveAt(pending, i))
  /\ UNCHANGED <<showGifModal, prompt, presets, batchVars, promptVars, calcVars,
                 lassoVars, langVars>>

\* handleGenerateFromText after its await, catch branch
TextRejects(i, call) ==
  /\ i \in 1..Len(pending)
  /\ pending[i].handler = "handleGenerateFromText"
  /\ ~TextCallResult(call).ok
  /\ error' = ErrorPrefix("handleGenerateFromText") \o TextCallResult(call).message
  /\ isLoading' = FALSE
  /\ pending' = RemoveAt(pending, i)
  /\ UNCHANGED <<appMode, history, historyIndex, editHotspot, maskFile, activeTab,
                 showVariationsModal, showGifModal, originalPrompt, prompt, presets,
                 nextFile, batchVars, uiVars>>

\* an exit that leaves the history behind
ExitEditorWrites_KeepsHistory ==
  /\ UNCHANGED <<history, historyIndex>>
  /\ error' = NoError
  /\ prompt' = ""
  /\ editHotspot' = FALSE
  /\ appMode' = "start"

\* the state writes of handleExitEditor
ExitEditorWrites ==
  /\ history' = <<>>
  /\ historyIndex' = -1
  /\ error' = NoError
  /\ prompt' = ""
  /\ editHotspot' = FALSE
  /\ appMode' = "start"

\* Exit Editor button, Escape key, BatchEditor's exit button, or the
\* "try again" button of the start screen's error panel
handleExitEditor ==
  /\ \/ EditorShown /\ NoModal /\ ~isLoading
     \/ KeyboardEnabled
     \/ appMode = "batch" /\ NoModal
     \/ appMode = "start" /\ ~isLoading /\ error # NoError /\ NoModal
  /\ ExitEditorWrites
  /\ pending' = MarkStale(pending)
  /\ UNCHANGED <<isLoading, maskFile, activeTab, showVariationsModal, showGifModal,
                 originalPrompt, presets, nextFile, batchVars, uiVars>>

\* StartScreen onBatchEditClick
onBatchEditClick ==
  /\ StartShown
  /\ appMode' = "batch"
  /\ UNCHANGED <<history, historyIndex, isLoading, error, editHotspot, maskFile,
                 activeTab, showVariationsModal, showGifModal, originalPrompt, prompt,
                 presets, pending, nextFile, batchVars, uiVars>>

(* --------------------------- edit handlers ---------------------------- *)
\* the prologue shared by the async edit handlers: the guard on currentImage,
\* setIsLoading(true), setError(null), then the await
StartEdit(handler, phase, desc) ==
  /\ HasCurrentImage
  /\ Len(pending) < MaxInflight
  /\ isLoading' = TRUE
  /\ error' = NoError
  /\ pending' = Append(pending, Op(handler, phase, desc, <<>>, CurrentFile))
  /\ UNCHANGED <<appMode, history, historyIndex, editHotspot, maskFile, activeTab,
                 showVariationsModal, showGifModal, originalPrompt, prompt, presets,
                 nextFile, batchVars, uiVars>>

handleGenerate ==
  /\ PanelEnabled("magic-edit")
  /\ prompt # ""
  /\ editHotspot
  /\ StartEdit("handleGenerate", "call", "Magic Edit: " \o Quoted(prompt))

handleApplyFilter ==
  \E filterPrompt \in Prompts :
    /\ PanelEnabled("filters")
    /\ StartEdit("handleApplyFilter", "call", "Filter: " \o Quoted(filterPrompt))

\* AdjustmentPanel, or a suggestion of SuggestionsPanel (onApplySuggestion)
handleApplyAdjustment ==
  \E adjustmentPrompt \in Prompts :
    /\ PanelEnabled("adjust") \/ (PanelEnabled("suggestions") /\ editSuggestions # <<>>)
    /\ StartEdit("handleApplyAdjustment", "call", "Adjustment: " \o Quoted(adjustmentPrompt))

handleRemoveBackground ==
  /\ PanelEnabled("remove-bg")
  /\ StartEdit("handleRemoveBackground", "call", "Remove Background")

handleUpscale ==
  /\ PanelEnabled("upscale")
  /\ StartEdit("handleUpscale", "call", "Upscale 2x")

\* the first await of handleExpand is the load of the current image
handleExpand ==
  /\ PanelEnabled("expand")
  /\ StartEdit("handleExpand", "load", "Expand: Extend scene")

\* a style image has been picked in the panel
handleStyleTransfer ==
  /\ PanelEnabled("style-transfer")
  /\ StartEdit("handleStyleTransfer", "call", "Style Transfer")

handleLassoGenerate ==
  \E lassoPrompt \in Prompts :
    /\ PanelEnabled("lasso-select")
    /\ maskFile
    /\ StartEdit("handleLassoGenerate", "call", "Lasso Edit: " \o Quoted(lassoPrompt))

\* handleExpand between img.onload and the call of expandImage;
\* getContext('2d') may return null
ExpandImageLoads(i, ctx) ==
  /\ i \in 1..Len(pending)
  /\ pending[i].handler = "handleExpand"
  /\ pending[i].phase = "load"
  /\ IF ctx
       THEN /\ pending' = [pending EXCEPT ![i].phase = "call"]
            /\ UNCHANGED <<error, isLoading>>
       ELSE /\ pending' = RemoveAt(pending, i)
            /\ error' = ErrorPrefix("handleExpand") \o "Could not get canvas context"
            /\ isLoading' = FALSE
  /\ UNCHANGED <<appMode, history, historyIndex, editHotspot, maskFile, activeTab,
                 showVariationsModal, showGifModal, originalPrompt, prompt, presets,
                 nextFile, batchVars, uiVars>>

\* handleExpand when the current image does not decode: the error event
\* fires, nothing listens to it, and `await new Promise(resolve => {
\* img.onload = resolve; })` never settles
ExpandImageFailsToLoad(i) ==
  /\ i \in 1..Len(pending)
  /\ pending[i].handler = "handleExpand"
  /\ pending[i].phase = "load"
  /\ pending' = [pending EXCEPT ![i].phase = "never"]
  /\ UNCHANGED <<appMode, history, historyIndex, isLoading, error, editHotspot,
                 maskFile, activeTab, showVariationsModal, showGifModal,
                 originalPrompt, prompt, presets, nextFile, batchVars, uiVars>>

\* an edit handler after its await: the try branch, then finally
EditResolves(i, call) ==
  /\ i \in 1..Len(pending)
  /\ pending[i].handler \in EditHandlers
  /\ pending[i].phase = "call"
  /\ CallResult(call).ok
  /\ nextFile < MaxFiles
  /\ LET op == pending[i]
         pushed == addImageToHistory(op.hist, op.idx, nextFile, op.desc)
     IN  /\ history' = pushed.history
         /\ historyIndex' = pushed.historyIndex
         /\ editHotspot' = IF op.handler = "handleGenerate" THEN FALSE ELSE editHotspot
         /\ maskFile' = IF op.handler = "handleLassoGenerate" THEN FALSE ELSE maskFile
  /\ nextFile' = nextFile + 1
  /\ isLoading' = FALSE
  /\ pending' = RemoveAt(pending, i)
  /\ UNCHANGED <<appMode, error, activeTab, showVariationsModal, showGifModal,
                 originalPrompt, prompt, presets, batchVars, uiVars>>

\* a catch branch that also goes back to the original image
EditRejects_ResetsCursor(i, call) ==
  /\ i \in 1..Len(pending)
  /\ pending[i].handler \in EditHandlers
  /\ pending[i].phase = "call"
  /\ ~CallResult(call).ok
  /\ error' = ErrorPrefix(pending[i].handler) \o CallResult(call).message
  /\ historyIndex' = 0
  /\ isLoading' = FALSE
  /\ pending' = RemoveAt(pending, i)
  /\ UNCHANGED <<appMode, history, editHotspot, maskFile, activeTab,
                 showVariationsModal, showGifModal, originalPrompt, prompt, presets,
                 nextFile, batchVars, uiVars>>

\* an edit handler after its await: the catch branch, then finally
EditRejects(i, call) ==
  /\ i \in 1..Len(pending)
  /\ pending[i].handler \in EditHandlers
  /\ pending[i].phase = "call"
  /\ ~CallResult(call).ok
  /\ error' = ErrorPrefix(pending[i].handler) \o CallResult(call).message
  /\ isLoading' = FALSE
  /\ pending' = RemoveAt(pending, i)
  /\ UNCHANGED <<appMode, history, historyIndex, editHotspot, maskFile, activeTab,
                 showVariationsModal, showGifModal, originalPrompt, prompt, presets,
                 nextFile, batchVars, uiVars>>

\* handleApplyCrop with a completed crop: synchronous
handleApplyCrop ==
  /\ PanelEnabled("crop")
  /\ nextFile < MaxFiles
  /\ LET pushed == addImageToHistory(history, historyIndex, nextFile, "Crop")
     IN  /\ history' = pushed.history
         /\ historyIndex' = pushed.historyIndex
  /\ nextFile' = nextFile + 1
  /\ UNCHANGED <<appMode, isLoading, error, editHotspot, maskFile, activeTab,
                 showVariationsModal, showGifModal, originalPrompt, prompt, presets,
                 pending, batchVars, uiVars>>

(* ------------------------ variations and GIF -------------------------- *)
handleGenerateVariations ==
  /\ EditorShown /\ NoModal /\ ~isLoading
  /\ StartEdit("handleGenerateVariations",
               IF originalPrompt THEN "call" ELSE "analyze", NoDescription)

handleGenerateGif ==
  /\ EditorShown /\ NoModal /\ ~isLoading
  /\ StartEdit("handleGenerateGif", "call", NoDescription)

\* getPromptFromImage resolved or rejected
VariationsAnalyzed(i, ok) ==
  /\ i \in 1..Len(pending)
  /\ pending[i].handler = "handleGenerateVariations"
  /\ pending[i].phase = "analyze"
  /\ IF ok
       THEN /\ pending' = [pending EXCEPT ![i].phase = "call"]
            /\ UNCHANGED <<error, isLoading>>
       ELSE /\ pending' = RemoveAt(pending, i)
            /\ error' = ErrorPrefix("handleGenerateVariations") \o "request failed"
            /\ isLoading' = FALSE
  /\ UNCHANGED <<appMode, history, historyIndex, editHotspot, maskFile, activeTab,
                 showVariationsModal, showGifModal, originalPrompt, prompt, presets,
                 nextFile, batchVars, uiVars>>

\* generateImageVariations / generateAnimatedGif resolved or rejected
ModalCallSettles(i, ok) ==
  /\ i \in 1..Len(pending)
  /\ pending[i].handler \in {"handleGenerateVariations", "handleGenerateGif"}
  /\ pending[i].phase = "call"
  /\ IF ok
       THEN /\ showVariationsModal' =
                 (showVariationsModal \/ pending[i].handler = "handleGenerateVariations")
            /\ showGifModal' = (showGifModal \/ pending[i].handler = "handleGenerateGif")
            /\ error' = error
       ELSE /\ error' = ErrorPrefix(pending[i].handler) \o "request failed"
            /\ UNCHANGED <<showVariationsModal, showGifModal>>
  /\ isLoading' = FALSE
  /\ pending' = RemoveAt(pending, i)
  /\ UNCHANGED <<appMode, history, historyIndex, editHotspot, maskFile, activeTab,
                 originalPrompt, prompt, presets, nextFile, batchVars, uiVars>>

\* a variation is picked in the modal: synchronous push
handleSelectVariation ==
  /\ showVariationsModal /\ ~showGifModal
  /\ nextFile < MaxFiles
  /\ LET pushed == addImageToHistory(history, historyIndex, nextFile, "Selected Variation")
     IN  /\ history' = pushed.history
         /\ historyIndex' = pushed.historyIndex
  /\ nextFile' = nextFile + 1
  /\ showVariationsModal' = FALSE
  /\ UNCHANGED <<appMode, isLoading, error, editHotspot, maskFile, activeTab,
                 showGifModal, originalPrompt, prompt, presets, pending, batchVars, uiVars>>

\* onClose of either modal
CloseModal ==
  /\ showVariationsModal \/ showGifModal
  /\ IF showGifModal
       THEN showGifModal' = FALSE /\ UNCHANGED showVariationsModal
       ELSE showVariationsModal' = FALSE /\ UNCHANGED showGifModal
  /\ UNCHANGED <<appMode, history, historyIndex, isLoading, error, editHotspot,
                 maskFile, activeTab, originalPrompt, prompt, presets, pending, nextFile,
                 batchVars, uiVars>>

(* ------------------------- undo / redo / reset ------------------------ *)
\* Undo button or Ctrl+Z
handleUndo ==
  /\ KeyboardEnabled
  /\ historyIndex' = undoIndex
  /\ UNCHANGED <<appMode, history, isLoading, error, editHotspot, maskFile,
                 activeTab, showVariationsModal, showGifModal, originalPrompt, prompt,
                 presets, pending, nextFile, batchVars, uiVars>>

\* Redo button or Ctrl+Shift+Z / Ctrl+Y
handleRedo ==
  /\ KeyboardEnabled
  /\ historyIndex' = redoIndex
  /\ UNCHANGED <<appMode, history, isLoading, error, editHotspot, maskFile,
                 activeTab, showVariationsModal, showGifModal, originalPrompt, prompt,
                 presets, pending, nextFile, batchVars, uiVars>>

\* Reset button or Ctrl+R
handleReset ==
  /\ KeyboardEnabled
  /\ IF Len(history) > 0
       THEN historyIndex' = 0 /\ error' = NoError
       ELSE UNCHANGED <<historyIndex, error>>
  /\ UNCHANGED <<appMode, history, isLoading, editHotspot, maskFile, activeTab,
                 showVariationsModal, showGifModal, originalPrompt, prompt, presets,
                 pending, nextFile, batchVars, uiVars>>

(* ------------------------ transient UI state -------------------------- *)
\* a tab button of the tab bar, or Alt+digit (TABS[0..9])
setActiveTab(tab) ==
  /\ \/ EditorShown /\ NoModal
     \/ KeyboardEnabled /\ tab # TABS[11]
  /\ activeTab' = tab
  /\ maskFile' = MaskAfterTab(tab)
  /\ UNCHANGED <<appMode, history, historyIndex, isLoading, error, editHotspot,
                 showVariationsModal, showGifModal, originalPrompt, prompt, presets,
                 pending, nextFile, batchVars, uiVars>>

\* a click on the image; the loading overlay covers the image
handleImageClick ==
  /\ EditorShown /\ NoModal /\ ~isLoading
  /\ activeTab = "magic-edit"
  /\ editHotspot' = TRUE
  /\ UNCHANGED <<appMode, history, historyIndex, isLoading, error, maskFile,
                 activeTab, showVariationsModal, showGifModal, originalPrompt, prompt,
                 presets, pending, nextFile, batchVars, uiVars>>

\* onChange of the Magic Edit input, disabled without a hotspot
setPrompt(value) ==
  /\ PanelEnabled("magic-edit")
  /\ editHotspot
  /\ prompt' = value
  /\ UNCHANGED <<appMode, history, historyIndex, isLoading, error, editHotspot,
                 maskFile, activeTab, showVariationsModal, showGifModal,
                 originalPrompt, presets, pending, nextFile, batchVars, uiVars>>

\* LassoCanvas hands a finished mask to setMaskFile
onMaskReady ==
  /\ PanelEnabled("lasso-select")
  /\ maskFile' = TRUE
  /\ UNCHANGED <<appMode, history, historyIndex, isLoading, error, editHotspot,
                 activeTab, showVariationsModal, showGifModal, originalPrompt, prompt,
                 presets, pending, nextFile, batchVars, uiVars>>

\* the button of the editor's error panel: setError(null)
DismissError ==
  /\ appMode = "single-image" /\ HasCurrentImage /\ NoModal
  /\ error # NoError
  /\ error' = NoError
  /\ UNCHANGED <<appMode, history, historyIndex, isLoading, editHotspot, maskFile,
                 activeTab, showVariationsModal, showGifModal, originalPrompt, prompt,
                 presets, pending, nextFile, batchVars, uiVars>>

(* ------------------------------ presets ------------------------------- *)
PresetsPanelShown == EditorShown /\ NoModal /\ activeTab = "presets"

\* the descriptions handleSavePreset records from its history prop
PresetActions(h) ==
  LET prompts == [k \in 1..Len(h) |-> h[k].actionDescription]
  IN  SelectSeq(prompts, LAMBDA actionPrompt : actionPrompt # "")

\* a save that records the whole history after the original
handleSavePreset_IgnoresCursor(presetName) ==
  LET shown == Slice(history, 1, Len(history))
      actions == PresetActions(shown)
  IN  /\ PresetsPanelShown
      /\ trim(presetName) # <<>>
      /\ Len(shown) > 0
      /\ Len(actions) > 0
      /\ Len(presets) < MaxPresets
      /\ presets' = Append(presets, [name |-> presetName, actions |-> actions])
      /\ UNCHANGED <<appMode, history, historyIndex, isLoading, error, editHotspot,
                     maskFile, activeTab, showVariationsModal, showGifModal,
                     originalPrompt, prompt, pending, nextFile, batchVars, uiVars>>

\* the Save button; MaxPresets presets fit into the panel
handleSavePreset(presetName) ==
  LET shown == Slice(history, 1, historyIndex + 1)
      actions == PresetActions(shown)
  IN  /\ PresetsPanelShown
      /\ trim(presetName) # <<>>
      /\ Len(shown) > 0
      /\ Len(actions) > 0
      /\ Len(presets) < MaxPresets
      /\ presets' = Append(presets, [name |-> presetName, actions |-> actions])
      /\ UNCHANGED <<appMode, history, historyIndex, isLoading, error, editHotspot,
                     maskFile, activeTab, showVariationsModal, showGifModal,
                     originalPrompt, prompt, pending, nextFile, batchVars, uiVars>>

\* a delete that removes the first preset of that name only
handleDeletePreset_FirstOnly(presetNameToDelete) ==
  /\ PresetsPanelShown
  /\ \E k \in 1..Len(presets) : presets[k].name = presetNameToDelete
  /\ LET first == CHOOSE k \in 1..Len(presets) :
                    /\ presets[k].name = presetNameToDelete
                    /\ \A j \in 1..(k - 1) : presets[j].name # presetNameToDelete
     IN  presets' = RemoveAt(presets, first)
  /\ UNCHANGED <<appMode, history, historyIndex, isLoading, error, editHotspot,
                 maskFile, activeTab, showVariationsModal, showGifModal,
                 originalPrompt, prompt, pending, nextFile, batchVars, uiVars>>

\* the Delete button of a listed preset
handleDeletePreset(presetNameToDelete) ==
  /\ PresetsPanelShown
  /\ \E k \in 1..Len(presets) : presets[k].name = presetNameToDelete
  /\ presets' = SelectSeq(presets, LAMBDA p : p.name # presetNameToDelete)
  /\ UNCHANGED <<appMode, history, historyIndex, isLoading, error, editHotspot,
                 maskFile, activeTab, showVariationsModal, showGifModal,
                 originalPrompt, prompt, pending, nextFile, batchVars, uiVars>>

\* one successful step i (0-based) of the replay loop: the history it sets,
\* built from the history the handler closed over
presetStepHistory(hist, i, newImageFile, actionPrompt) ==
  LET newHistory == Append(Slice(hist, 0, i + 1),
                           HistoryItem(newImageFile, "Preset: " \o actionPrompt))
  IN  [history |-> newHistory, historyIndex |-> i + 1]

\* handleApplyPreset(presets[k]) up to the await of its first step
handleApplyPreset(k) ==
  /\ PresetsPanelShown
  /\ k \in 1..Len(presets)
  /\ HasOriginalImage
  /\ Len(presets[k].actions) > 0
  /\ Len(pending) < MaxInflight
  /\ isLoading' = TRUE
  /\ error' = NoError
  /\ history' = Slice(history, 0, 1)
  /\ historyIndex' = 0
  /\ pending' = Append(pending, Op("handleApplyPreset", "call", NoDescription,
                                   presets[k].actions, history[1].file))
  /\ UNCHANGED <<appMode, editHotspot, maskFile, activeTab, showVariationsModal,
                 showGifModal, originalPrompt, prompt, presets, nextFile, batchVars, uiVars>>

\* a replay that hands the original image to every step
PresetStepResolves_SameInput(i, call) ==
  /\ i \in 1..Len(pending)
  /\ pending[i].handler = "handleApplyPreset"
  /\ CallResult(call).ok
  /\ nextFile < MaxFiles
  /\ LET op == pending[i]
         step == presetStepHistory(op.hist, op.step, nextFile, op.actions[op.step + 1])
     IN  /\ history' = step.history
         /\ historyIndex' = step.historyIndex
         /\ IF op.step + 1 < Len(op.actions)
              THEN /\ pending' = [pending EXCEPT ![i].step = op.step + 1,
                                                 ![i].results = Append(@, nextFile)]
                   /\ UNCHANGED isLoading
              ELSE /\ pending' = RemoveAt(pending, i)
                   /\ isLoading' = FALSE
  /\ nextFile' = nextFile + 1
  /\ UNCHANGED <<appMode, error, editHotspot, maskFile, activeTab,
                 showVariationsModal, showGifModal, originalPrompt, prompt, presets,
                 batchVars, uiVars>>

\* the await of step op.step resolved with an image: history is rebuilt,
\* and the loop either awaits the next step or ends
PresetStepResolves(i, call) ==
  /\ i \in 1..Len(pending)
  /\ pending[i].handler = "handleApplyPreset"
  /\ CallResult(call).ok
  /\ nextFile < MaxFiles
  /\ LET op == pending[i]
         step == presetStepHistory(op.hist, op.step, nextFile, op.actions[op.step + 1])
     IN  /\ history' = step.history
         /\ historyIndex' = step.historyIndex
         /\ IF op.step + 1 < Len(op.actions)
              THEN /\ pending' = [pending EXCEPT ![i].step = op.step + 1,
                                                 ![i].image = nextFile,
                                                 ![i].results = Append(@, nextFile)]
                   /\ UNCHANGED isLoading
              ELSE /\ pending' = RemoveAt(pending, i)
                   /\ isLoading' = FALSE
  /\ nextFile' = nextFile + 1
  /\ UNCHANGED <<appMode, error, editHotspot, maskFile, activeTab,
                 showVariationsModal, showGifModal, originalPrompt, prompt, presets,
                 batchVars, uiVars>>

\* the message of the catch block of step i (0-based): it is built from
\* action.prompt and the error's message
presetStepError(actionPrompt, i, errorMessage) ==
  "Failed to apply preset step \"" \o actionPrompt \o "\". " \o errorMessage

\* a catch block that goes back to the original image
PresetStepRejects_RollsBack(i, call) ==
  /\ i \in 1..Len(pending)
  /\ pending[i].handler = "handleApplyPreset"
  /\ ~CallResult(call).ok
  /\ error' = presetStepError(pending[i].actions[pending[i].step + 1],
                              pending[i].step, CallResult(call).message)
  /\ history' = Slice(history, 0, 1)
  /\ historyIndex' = 0
  /\ isLoading' = FALSE
  /\ pending' = RemoveAt(pending, i)
  /\ UNCHANGED <<appMode, editHotspot, maskFile, activeTab,
                 showVariationsModal, showGifModal, originalPrompt, prompt, presets,
                 nextFile, batchVars, uiVars>>

\* the await of step op.step threw: setError, break, setIsLoading(false)
PresetStepRejects(i, call) ==
  /\ i \in 1..Len(pending)
  /\ pending[i].handler = "handleApplyPreset"
  /\ ~CallResult(call).ok
  /\ error' = presetStepError(pending[i].actions[pending[i].step + 1],
                              pending[i].step, CallResult(call).message)
  /\ isLoading' = FALSE
  /\ pending' = RemoveAt(pending, i)
  /\ UNCHANGED <<appMode, history, historyIndex, editHotspot, maskFile, activeTab,
                 showVariationsModal, showGifModal, originalPrompt, prompt, presets,
                 nextFile, batchVars, uiVars>>

(* ---------------------------- BatchEditor ---------------------------- *)
\* name and lastModified of the files the picker can return; nothing
\* makes the files of one selection differ in name or in timestamp
Files ==
  << [name |-> "x.png", lastModified |-> "1"],
     [name |-> "x.png", lastModified |-> "2"],
     [name |-> "y.png", lastModified |-> "1"] >>

\* the FileList of one selection: the picker lists the chosen files in
\* one order, here the order of Files
FileLists ==
  LET Picks(n) == {ix \in [1..n -> 1..Len(Files)] :
                     \A k \in 1..(n - 1) : ix[k] <= ix[k + 1]}
  IN  UNION {{[k \in 1..n |-> Files[ix[k]]] : ix \in Picks(n)} : n \in 1..MaxJobs}

\* `${file.name}-${file.lastModified}`
JobId(file) == file.name \o "-" \o file.lastModified

\* new File([u8arr], `edited-${job.originalFile.name}`): a File object is
\* the image one call returned, so it is told apart by the call (the queue
\* element) it came from
ProcessedFile(job) == [name |-> "edited-" \o job.name, from |-> job.pos]
\* processedFile: undefined
NoFile == [name |-> "", from |-> 0]

ImageJob(file) ==
  [id |-> JobId(file), name |-> file.name, status |-> "pending",
   processedFile |-> NoFile, error |-> ""]

\* prev.map(j => j.id === id ? { ...j, status: 'processing' } : j)
MarkProcessing(prev, id) ==
  [k \in 1..Len(prev) |->
     IF prev[k].id = id THEN [prev[k] EXCEPT !.status = "processing"] ELSE prev[k]]

\* prev.map(j => j.id === id ? { ...j, status: 'done', processedFile } : j)
MarkDone(prev, id, newFile) ==
  [k \in 1..Len(prev) |->
     IF prev[k].id = id
       THEN [prev[k] EXCEPT !.status = "done", !.processedFile = newFile]
       ELSE prev[k]]

\* prev.map(j => j.id === id ? { ...j, status: 'error', error: message } : j)
MarkError(prev, id, message) ==
  [k \in 1..Len(prev) |->
     IF prev[k].id = id
       THEN [prev[k] EXCEPT !.status = "error", !.error = message]
       ELSE prev[k]]

\* imageJobs.filter(job => job.status === 'pending' || job.status === 'error'),
\* each element with the position of the record it was copied from
NewQueue(jobs) ==
  LET positions == SelectSeq([k \in 1..Len(jobs) |-> k],
                             LAMBDA k : jobs[k].status \in {"pending", "error"})
  IN  [n \in 1..Len(positions) |->
        [id |-> jobs[positions[n]].id, name |-> jobs[positions[n]].name,
         pos |-> positions[n]]]

\* the change event of the hidden file input.  The picker is opened on mount
\* and by the button of the empty batch, so a selection arrives while the
\* batch is empty.
handleFileSelect(files) ==
  /\ appMode = "batch"
  /\ imageJobs = <<>>
  /\ imageJobs' = imageJobs \o [k \in 1..Len(files) |-> ImageJob(files[k])]
  /\ UNCHANGED <<appVars, uiVars, isProcessing, queue, workers, downloaded>>

\* The synchronous part of processImages: the queue is built and each of the
\* CONCURRENT_LIMIT workers runs up to its first await - it shifts a job and
\* runJob marks it processing - or returns at once on an empty queue.
RECURSIVE StartWorkers(_, _, _, _)
StartWorkers(w, jobs, q, ws) ==
  IF w > CONCURRENT_LIMIT THEN [imageJobs |-> jobs, queue |-> q, workers |-> ws]
  ELSE IF Len(q) > 0
    THEN StartWorkers(w + 1, MarkProcessing(jobs, Head(q).id), Tail(q),
                      [ws EXCEPT ![w] = [state |-> "running", job |-> Head(q)]])
    ELSE StartWorkers(w + 1, jobs, q,
                      [ws EXCEPT ![w] = [state |-> "finished", job |-> NoJob]])

AllFinished(ws) == \A w \in 1..CONCURRENT_LIMIT : ws[w].state = "finished"

\* the Process button
processImages ==
  /\ appMode = "batch"
  /\ ~isProcessing
  /\ Len(imageJobs) > 0
  /\ LET started == StartWorkers(1, imageJobs, NewQueue(imageJobs), IdleWorkers)
     IN  /\ imageJobs' = started.imageJobs
         /\ queue' = started.queue
         /\ IF AllFinished(started.workers)
              THEN workers' = IdleWorkers /\ isProcessing' = FALSE
              ELSE workers' = started.workers /\ isProcessing' = TRUE
  /\ UNCHANGED <<appVars, uiVars, downloaded>>

\* a worker that returns after its first job
JobSettles_ReturnsAfterOne(w, call) ==
  /\ appMode = "batch"
  /\ workers[w].state = "running"
  /\ LET job == workers[w].job
         r == CallResult(call)
         ws == [workers EXCEPT ![w] = [state |-> "finished", job |-> NoJob]]
     IN  /\ imageJobs' = IF r.ok THEN MarkDone(imageJobs, job.id, ProcessedFile(job))
                           ELSE MarkError(imageJobs, job.id, r.message)
         /\ IF AllFinished(ws)
              THEN workers' = IdleWorkers /\ isProcessing' = FALSE
              ELSE workers' = ws /\ UNCHANGED isProcessing
  /\ UNCHANGED <<appVars, uiVars, downloaded, queue>>

\* runJob after its await - try or catch branch - and the worker's next
\* turn of the loop; when the last worker returns, Promise.all resolves
JobSettles(w, call) ==
  /\ appMode = "batch"
  /\ workers[w].state = "running"
  /\ LET job == workers[w].job
         r == CallResult(call)
         settled == IF r.ok THEN MarkDone(imageJobs, job.id, ProcessedFile(job))
                    ELSE MarkError(imageJobs, job.id, r.message)
         ws == IF Len(queue) > 0
                 THEN [workers EXCEPT ![w] = [state |-> "running", job |-> Head(queue)]]
                 ELSE [workers EXCEPT ![w] = [state |-> "finished", job |-> NoJob]]
     IN  /\ imageJobs' = IF Len(queue) > 0
                           THEN MarkProcessing(settled, Head(queue).id)
                           ELSE settled
         /\ queue' = IF Len(queue) > 0 THEN Tail(queue) ELSE queue
         /\ IF AllFinished(ws)
              THEN workers' = IdleWorkers /\ isProcessing' = FALSE
              ELSE workers' = ws /\ UNCHANGED isProcessing
  /\ UNCHANGED <<appVars, uiVars, downloaded>>

\* imageJobs.filter(job => job.status === 'done').length
jobsDone == Len(SelectSeq(imageJobs, LAMBDA job : job.status = "done"))
totalJobs == Len(imageJobs)
\* a signal that counts the jobs that have ended, failed ones included
allFinished_CountsErrors ==
  /\ Len(SelectSeq(imageJobs, LAMBDA job : job.status \in {"done", "error"})) = totalJobs
  /\ totalJobs > 0
allFinished == (jobsDone = totalJobs) /\ totalJobs > 0

\* JSZip file(name, data): the entry of that name is set, a previous entry
\* of the same name is replaced
zipFile(zip, name, data) ==
  {entry \in zip : entry.name # name} \cup {[name |-> name, data |-> data]}

\* doneJobs.forEach(job => zip.file(job.processedFile.name, job.processedFile))
RECURSIVE zipAll(_, _)
zipAll(zip, doneJobs) ==
  IF doneJobs = <<>> THEN zip
  ELSE zipAll(zipFile(zip, Head(doneJobs).processedFile.name,
                      Head(doneJobs).processedFile),
              Tail(doneJobs))

\* the Download All button, rendered when allFinished
handleDownloadAll ==
  /\ appMode = "batch"
  /\ allFinished
  /\ LET doneJobs == SelectSeq(imageJobs,
                               LAMBDA job : job.status = "done" /\ job.processedFile # NoFile)
     IN  /\ Len(doneJobs) # 0
         /\ downloaded' = zipAll({}, doneJobs)
  /\ UNCHANGED <<appVars, uiVars, imageJobs, isProcessing, queue, workers>>

(* ---------------------------- StartScreen ----------------------------- *)
\* 'Origami,': the initial value of the prompt input
DefaultPrompt == <<"O", "r", "i", "g", "a", "m", "i", ",">>

\* .slice(0, 20)
KeepLatest == 20

\* the n-th prompt of the user: "p" and the two digits of n
Digits == <<"0", "1", "2", "3", "4", "5", "6", "7", "8", "9">>
Prompt(n) == <<"p", Digits[(n \div 10) + 1], Digits[(n % 10) + 1]>>
\* white space typed before or after the text
Padding == {<<>>, <<" ">>}

\* a save that does not look for the prompt in the stored history
savePromptToHistory_NoFilter(newPrompt) ==
  LET trimmedPrompt == trim(newPrompt)
  IN  IF trimmedPrompt = <<>> \/ trimmedPrompt = DefaultPrompt
        THEN UNCHANGED <<storedPrompts, promptHistory>>
        ELSE LET updatedHistory == Slice(<<trimmedPrompt>> \o storedPrompts, 0, KeepLatest)
             IN  /\ storedPrompts' = updatedHistory
                 /\ promptHistory' = updatedHistory

\* savePromptToHistory(newPrompt): the history is read from localStorage,
\* written back and copied to the component's state
savePromptToHistory(newPrompt) ==
  LET trimmedPrompt == trim(newPrompt)
  IN  IF trimmedPrompt = <<>> \/ trimmedPrompt = DefaultPrompt
        THEN UNCHANGED <<storedPrompts, promptHistory>>
        ELSE LET currentHistory == storedPrompts
                 updatedHistory ==
                   Slice(<<trimmedPrompt>> \o
                           SelectSeq(currentHistory, LAMBDA p : p # trimmedPrompt),
                         0, KeepLatest)
             IN  /\ storedPrompts' = updatedHistory
                 /\ promptHistory' = updatedHistory

\* The user saves Prompt(n): new prompts come in the order Prompt(1),
\* Prompt(2), ..., and MaxRetyped times a prompt typed before comes again:
\* one of the first two or of the last two.
SavePrompt(n, before, after) ==
  /\ \/ /\ n = promptsTyped + 1
        /\ promptsTyped' = n
        /\ UNCHANGED promptsRetyped
     \/ /\ n <= promptsTyped
        /\ n \in {1, 2, promptsTyped - 1, promptsTyped}
        /\ promptsRetyped < MaxRetyped
        /\ promptsRetyped' = promptsRetyped + 1
        /\ UNCHANGED promptsTyped
  /\ savePromptToHistory(before \o Prompt(n) \o after)
  /\ UNCHANGED <<appVars, batchVars, calcVars, lassoVars, suggestVars, langVars>>

\* a save is asked for while the input holds white space or 'Origami,'
SaveNoPrompt(text, before, after) ==
  /\ savePromptToHistory(before \o text \o after)
  /\ UNCHANGED <<appVars, batchVars, promptsTyped, promptsRetyped, calcVars,
                 lassoVars, suggestVars, langVars>>

\* the clear button, rendered when the list is not empty
handleClearHistory ==
  /\ promptHistory # <<>>
  /\ promptHistory' = <<>>
  /\ storedPrompts' = <<>>
  /\ UNCHANGED <<appVars, batchVars, promptsTyped, promptsRetyped, calcVars,
                 lassoVars, suggestVars, langVars>>

(* ---------------------------- suggestions ---------------------------- *)
\* handleGetSuggestions after its await, try branch: the suggestions made
\* for `file` are put on display, whichever image is current by then
SuggestionsResolve(file) ==
  /\ file \in suggesting
  /\ editSuggestions' = <<file>>
  /\ suggesting' = suggesting \ {file}
  /\ UNCHANGED <<appVars, batchVars, promptVars, calcVars, lassoVars, langVars>>

\* handleGetSuggestions after its await, catch branch: console.error only
SuggestionsReject(file) ==
  /\ file \in suggesting
  /\ suggesting' = suggesting \ {file}
  /\ UNCHANGED <<appVars, batchVars, promptVars, calcVars, lassoVars, langVars,
                 editSuggestions>>

(* ----------------------------- languages ------------------------------ *)
\* codes of Header's LANGUAGES the user picks
Languages == {"en", "es", "fr"}

\* the error panel is on the page: renderSingleImageEditor shows it in
\* place of the editor, the start screen once isLoading is false, and
\* BatchEditor is rendered whatever `error` holds
ErrorShown ==
  /\ error # NoError
  /\ \/ appMode = "single-image" /\ HasCurrentImage
     \/ appMode = "start" /\ ~isLoading

\* handleLanguageChange after `await translateText`, catch branch then
\* finally; translateText throws when the request fails or its text is
\* not JSON
TranslateRejects(i) ==
  /\ i \in 1..Len(pending)
  /\ pending[i].handler = "handleLanguageChange"
  /\ error' = "Failed to translate UI. " \o "request failed"
  /\ isLoading' = FALSE
  /\ pending' = RemoveAt(pending, i)
  /\ UNCHANGED <<appMode, history, historyIndex, editHotspot, maskFile, activeTab,
                 showVariationsModal, showGifModal, originalPrompt, prompt, presets,
                 nextFile, batchVars, uiVars>>

\* handleLanguageChange after `await translateText`, try branch then finally
TranslateResolves(i) ==
  /\ i \in 1..Len(pending)
  /\ pending[i].handler = "handleLanguageChange"
  /\ LET langCode == pending[i].desc
     IN  /\ translationCache' = translationCache \cup {langCode}
         /\ uiStrings' = langCode
         /\ currentLanguage' = langCode
         /\ storedLanguage' = langCode
  /\ isLoading' = FALSE
  /\ pending' = RemoveAt(pending, i)
  /\ UNCHANGED <<appMode, history, historyIndex, error, editHotspot, maskFile,
                 activeTab, showVariationsModal, showGifModal, originalPrompt, prompt,
                 presets, nextFile, batchVars, promptVars, calcVars, lassoVars,
                 suggestVars>>

\* the language select of Header, which is on every page and takes no
\* isLoading: English and cached languages are set at once, any other
\* language waits for translateText (langCode rides in the call's desc)
handleLanguageChange(langCode) ==
  /\ NoModal
  /\ langCode # currentLanguage
  /\ IF langCode = "en"
       THEN /\ uiStrings' = "en"
            /\ currentLanguage' = "en"
            /\ translationCache' = translationCache \ {currentLanguage}
            /\ storedLanguage' = "en"
            /\ UNCHANGED <<isLoading, pending>>
       ELSE IF langCode \in translationCache
       THEN /\ uiStrings' = langCode
            /\ currentLanguage' = langCode
            /\ storedLanguage' = langCode
            /\ isLoading' = FALSE
            /\ UNCHANGED <<translationCache, pending>>
       ELSE /\ Len(pending) < MaxInflight
            /\ isLoading' = TRUE
            /\ pending' = Append(pending,
                                 Op("handleLanguageChange", "call", langCode, <<>>, 0))
            /\ UNCHANGED langVars
  /\ UNCHANGED <<appMode, history, historyIndex, error, editHotspot, maskFile,
                 activeTab, showVariationsModal, showGifModal, originalPrompt, prompt,
                 presets, nextFile, batchVars, promptVars, calcVars, lassoVars,
                 suggestVars>>

(* --------------------------- lasso canvas ----------------------------- *)
\* a click on the canvas adds a point unless the polygon is complete
handleCanvasClick ==
  /\ PanelEnabled("lasso-select")
  /\ ~isComplete
  /\ points < MaxPoints
  /\ points' = points + 1
  /\ UNCHANGED <<appVars, batchVars, promptVars, calcVars, isComplete, suggestVars,
                 langVars>>

\* LassoCanvas.handleUndo, the Undo Point button (disabled without points)
handleUndoPoint ==
  /\ PanelEnabled("lasso-select")
  /\ points > 0
  /\ isComplete' = FALSE
  /\ points' = points - 1
  /\ UNCHANGED <<appVars, batchVars, promptVars, calcVars, suggestVars, langVars>>

\* LassoCanvas.handleClear, the Clear button (disabled without points)
handleClearPoints ==
  /\ PanelEnabled("lasso-select")
  /\ points > 0
  /\ points' = 0
  /\ isComplete' = FALSE
  /\ UNCHANGED <<appVars, batchVars, promptVars, calcVars, suggestVars, langVars>>

\* canvas.toDataURL('image/png') of the mask canvas, which has the natural
\* size of the image: a canvas without area gives "data:,"
toDataURL(naturalWidth) ==
  IF naturalWidth = 0 THEN DataUrl(TRUE, "") ELSE DataUrl(TRUE, "image/png")

\* a completion that does not count the points
handleComplete_NoPointTest(naturalWidth) ==
  /\ PanelEnabled("lasso-select")
  /\ isComplete' = TRUE
  /\ maskFile' = IF dataURLtoFile(toDataURL(naturalWidth)).ok THEN TRUE ELSE maskFile
  /\ UNCHANGED <<appMode, history, historyIndex, isLoading, error, editHotspot,
                 activeTab, showVariationsModal, showGifModal, originalPrompt, prompt,
                 presets, pending, nextFile, batchVars, promptVars, calcVars, points,
                 suggestVars, langVars>>

\* LassoCanvas.handleComplete as the function is written; the button that
\* calls it repeats the test on the points.  naturalWidth is 0 while the
\* image has not loaded.  dataURLtoFile throws before onMaskReady is called.
handleComplete(naturalWidth) ==
  /\ PanelEnabled("lasso-select")
  /\ IF points < 3
       THEN UNCHANGED <<isComplete, maskFile>>
       ELSE /\ isComplete' = TRUE
            /\ maskFile' = IF dataURLtoFile(toDataURL(naturalWidth)).ok
                             THEN TRUE ELSE maskFile
  /\ UNCHANGED <<appMode, history, historyIndex, isLoading, error, editHotspot,
                 activeTab, showVariationsModal, showGifModal, originalPrompt, prompt,
                 presets, pending, nextFile, batchVars, promptVars, calcVars, points,
                 suggestVars, langVars>>

\* the data URLs dataURLtoFile tells apart
DataUrlArgs ==
  [of : {"dataURLtoFile"}, url : {DataUrl(c, m) : c \in BOOLEAN, m \in {"", "image/png"}}]

\* a call of dataURLtoFile
ConvertDataUrl ==
  /\ args.of = "dataURLtoFile"
  /\ ~result.done
  /\ result' = [done |-> TRUE, ok |-> dataURLtoFile(args.url).ok,
                message |-> dataURLtoFile(args.url).message]
  /\ UNCHANGED <<appVars, batchVars, promptVars, args, lassoVars, suggestVars,
                 langVars>>

(* ------------------------ image geometry ------------------------------ *)
\* ExpandParams['direction']
Directions == {"all", "horizontal", "vertical", "top", "right", "bottom", "left"}

\* a canvas that draws the image at the left edge when the left side grows
expandCanvas_DrawsAtOrigin(img, pixels, direction) ==
  LET newWidth == img.width
                    + (IF direction \in {"all", "horizontal", "left"} THEN pixels ELSE 0)
                    + (IF direction \in {"all", "horizontal", "right"} THEN pixels ELSE 0)
      newHeight == img.height
                    + (IF direction \in {"all", "vertical", "top"} THEN pixels ELSE 0)
                    + (IF direction \in {"all", "vertical", "bottom"} THEN pixels ELSE 0)
  IN  [done |-> TRUE, width |-> newWidth, height |-> newHeight, drawX |-> 0,
       drawY |-> IF direction \in {"all", "vertical", "top"} THEN pixels ELSE 0]

\* handleExpand: the canvas the image is drawn on, and where.  The four
\* tests run one after the other on newWidth, newHeight, drawX, drawY.
expandCanvas(img, pixels, direction) ==
  LET start == [width |-> img.width, height |-> img.height, drawX |-> 0, drawY |-> 0]
      s1 == IF direction \in {"all", "horizontal", "left"}
              THEN [start EXCEPT !.width = @ + pixels, !.drawX = pixels] ELSE start
      s2 == IF direction \in {"all", "horizontal", "right"}
              THEN [s1 EXCEPT !.width = @ + pixels] ELSE s1
      s3 == IF direction \in {"all", "vertical", "top"}
              THEN [s2 EXCEPT !.height = @ + pixels, !.drawY = pixels] ELSE s2
      s4 == IF direction \in {"all", "vertical", "bottom"}
              THEN [s3 EXCEPT !.height = @ + pixels] ELSE s3
  IN  [done |-> TRUE, width |-> s4.width, height |-> s4.height,
       drawX |-> s4.drawX, drawY |-> s4.drawY]

\* what handleExpand can be given: a loaded image and the panel's values
\* (the button is disabled unless pixels > 0)
ExpandArgs ==
  [of : {"expandCanvas"}, width : 1..MaxSide, height : 1..MaxSide,
   pixels : 1..MaxPixels, direction : Directions]

\* the canvas part of handleExpand
DrawExpandCanvas ==
  /\ args.of = "expandCanvas"
  /\ ~result.done
  /\ result' = expandCanvas([width |-> args.width, height |-> args.height],
                            args.pixels, args.direction)
  /\ UNCHANGED <<appVars, batchVars, promptVars, args, lassoVars, suggestVars,
                 langVars>>

\* Math.round(x) for x = num / den >= 0: the integer nearest to x, halves up
MathRound(num, den) == (2 * num + den) \div (2 * den)

\* a mapping that drops the fraction
scalePoint_Truncates(offset2, natural, client) ==
  (offset2 * natural) \div (2 * client)

\* handleImageClick: Math.round(offset * (natural / client)) for one
\* coordinate.  offset2 is twice the offset: clientX - rect.left is a
\* number of CSS pixels and need not be whole.
scalePoint(offset2, natural, client) ==
  MathRound(offset2 * natural, 2 * client)

\* a click inside an image box of client size > 0; naturalWidth and
\* naturalHeight are 0 while the image has not loaded
ClickArgs ==
  {a \in [of : {"scalePoint"}, offsetX2 : 0..(2 * MaxSide), offsetY2 : 0..(2 * MaxSide),
          naturalWidth : 0..MaxSide, naturalHeight : 0..MaxSide,
          clientWidth : 1..MaxSide, clientHeight : 1..MaxSide] :
     a.offsetX2 <= 2 * a.clientWidth /\ a.offsetY2 <= 2 * a.clientHeight}

\* the coordinates handleImageClick hands to setEditHotspot
ScaleHotspot ==
  /\ args.of = "scalePoint"
  /\ ~result.done
  /\ result' = [done |-> TRUE,
                x |-> scalePoint(args.offsetX2, args.naturalWidth, args.clientWidth),
                y |-> scalePoint(args.offsetY2, args.naturalHeight, args.clientHeight)]
  /\ UNCHANGED <<appVars, batchVars, promptVars, args, lassoVars, suggestVars,
                 langVars>>

(* --------------------------- specifications --------------------------- *)
\* The editor is checked under several environments.  All start from Init
\* and differ in which controls the user operates.

\* tabs the user opens in NextUndoRedo
UndoRedoTabs == {"filters", "crop"}

\* The history store behind the controls that take isLoading: one async
\* edit (filter), the synchronous crop, undo/redo/reset, exit.
NextUndoRedo ==
  \/ handleImageUpload
  \/ handleExitEditor
  \/ \E tab \in UndoRedoTabs : setActiveTab(tab)
  \/ handleApplyFilter
  \/ \E i \in 1..MaxInflight, call \in Calls : EditResolves(i, call)
  \/ \E i \in 1..MaxInflight, call \in Calls : EditRejects(i, call)
  \/ handleApplyCrop
  \/ handleUndo
  \/ handleRedo
  \/ handleReset
  \/ DismissError

SpecUndoRedo == Init /\ [][NextUndoRedo]_vars

\* tabs the user opens in NextHistory
HistoryTabs == {"presets", "filters", "crop"}

\* History store, preset replay and overlapping calls: the controls of
\* NextUndoRedo and the presets panel, which does not take isLoading.
NextHistory ==
  \/ handleImageUpload
  \/ handleExitEditor
  \/ \E tab \in HistoryTabs : setActiveTab(tab)
  \/ handleApplyFilter
  \/ \E i \in 1..MaxInflight, call \in Calls : EditResolves(i, call)
  \/ \E i \in 1..MaxInflight, call \in Calls : EditRejects(i, call)
  \/ handleApplyCrop
  \/ handleUndo
  \/ handleRedo
  \/ handleReset
  \/ DismissError
  \/ \E k \in 1..MaxPresets : handleApplyPreset(k)
  \/ \E i \in 1..MaxInflight, call \in Calls : PresetStepResolves(i, call)
  \/ \E i \in 1..MaxInflight, call \in Calls : PresetStepRejects(i, call)

SpecHistory == Init /\ [][NextHistory]_vars

\* the Apply button of a preset, clicked while no call is pending
onApplyPreset(k) == pending = <<>> /\ handleApplyPreset(k)

\* One operation at a time: the controls of NextHistory, with a preset
\* applied only while no call is pending.
NextReplay ==
  \/ handleImageUpload
  \/ handleExitEditor
  \/ \E tab \in HistoryTabs : setActiveTab(tab)
  \/ handleApplyFilter
  \/ \E i \in 1..MaxInflight, call \in Calls : EditResolves(i, call)
  \/ \E i \in 1..MaxInflight, call \in Calls : EditRejects(i, call)
  \/ handleApplyCrop
  \/ handleUndo
  \/ handleRedo
  \/ handleReset
  \/ DismissError
  \/ \E k \in 1..MaxPresets : onApplyPreset(k)
  \/ \E i \in 1..MaxInflight, call \in Calls : PresetStepResolves(i, call)
  \/ \E i \in 1..MaxInflight, call \in Calls : PresetStepRejects(i, call)

SpecReplay == Init /\ [][NextReplay]_vars

\* Saving, deleting and replaying presets between edits, undo and redo.
NextPresets ==
  \/ handleImageUpload
  \/ \E tab \in HistoryTabs : setActiveTab(tab)
  \/ handleApplyFilter
  \/ \E i \in 1..MaxInflight, call \in Calls : EditResolves(i, call)
  \/ \E i \in 1..MaxInflight, call \in Calls : EditRejects(i, call)
  \/ handleApplyCrop
  \/ handleUndo
  \/ handleRedo
  \/ DismissError
  \/ \E presetName \in PresetNames : handleSavePreset(presetName)
  \/ \E presetName \in PresetNames : handleDeletePreset(presetName)
  \/ \E k \in 1..MaxPresets : onApplyPreset(k)
  \/ \E i \in 1..MaxInflight, call \in Calls : PresetStepResolves(i, call)
  \/ \E i \in 1..MaxInflight, call \in Calls : PresetStepRejects(i, call)

SpecPresets == Init /\ [][NextPresets]_vars

\* Sessions: started by an upload or by text-to-image generation, ended by
\* Exit Editor; in between one async edit (filter) and undo.
NextSession ==
  \/ handleImageUpload
  \/ handleGenerateFromText
  \/ \E i \in 1..MaxInflight, call \in Calls : TextResolves(i, call)
  \/ \E i \in 1..MaxInflight, call \in Calls : TextRejects(i, call)
  \/ handleExitEditor
  \/ setActiveTab("filters")
  \/ handleImageClick
  \/ setActiveTab("magic-edit")
  \/ \E value \in Prompts \cup {""} : setPrompt(value)
  \/ handleApplyFilter
  \/ \E i \in 1..MaxInflight, call \in Calls : EditResolves(i, call)
  \/ \E i \in 1..MaxInflight, call \in Calls : EditRejects(i, call)
  \/ handleUndo
  \/ DismissError

SpecSession == Init /\ [][NextSession]_vars

\* The request lifecycle of every async edit handler, each behind its panel.
NextEdits ==
  \/ handleImageUpload
  \/ \E tab \in TabSet : setActiveTab(tab)
  \/ handleImageClick
  \/ \E value \in Prompts \cup {""} : setPrompt(value)
  \/ onMaskReady
  \/ handleGenerate
  \/ handleApplyFilter
  \/ handleApplyAdjustment
  \/ handleRemoveBackground
  \/ handleUpscale
  \/ handleExpand
  \/ handleStyleTransfer
  \/ handleLassoGenerate
  \/ \E i \in 1..MaxInflight, ctx \in BOOLEAN : ExpandImageLoads(i, ctx)
  \/ \E i \in 1..MaxInflight, call \in Calls :
       nextFile <= MaxEdits /\ EditResolves(i, call)
  \/ \E i \in 1..MaxInflight, call \in Calls : EditRejects(i, call)
  \/ DismissError

SpecEdits == Init /\ [][NextEdits]_vars

\* tabs the user opens in NextLive
LiveTabs == {"filters", "expand"}

\* Pending calls and what ends them: a filter, expand with its image
\* load, and the GIF flow.
NextLive ==
  \/ handleImageUpload
  \/ \E tab \in LiveTabs : setActiveTab(tab)
  \/ handleApplyFilter
  \/ handleExpand
  \/ handleGenerateGif
  \/ CloseModal
  \/ DismissError
  \/ \E i \in 1..MaxInflight, ctx \in BOOLEAN : ExpandImageLoads(i, ctx)
  \/ \E i \in 1..MaxInflight : ExpandImageFailsToLoad(i)
  \/ \E i \in 1..MaxInflight, call \in Calls : EditResolves(i, call)
  \/ \E i \in 1..MaxInflight, call \in Calls : EditRejects(i, call)
  \/ \E i \in 1..MaxInflight, ok \in BOOLEAN : ModalCallSettles(i, ok)

\* every external call resolves or rejects, and every image load ends with
\* a load or an error event
Settles ==
  \/ \E i \in 1..MaxInflight, ctx \in BOOLEAN : ExpandImageLoads(i, ctx)
  \/ \E i \in 1..MaxInflight : ExpandImageFailsToLoad(i)
  \/ \E i \in 1..MaxInflight, call \in Calls : EditResolves(i, call)
  \/ \E i \in 1..MaxInflight, call \in Calls : EditRejects(i, call)
  \/ \E i \in 1..MaxInflight, ok \in BOOLEAN : ModalCallSettles(i, ok)

SpecLive == Init /\ [][NextLive]_vars /\ WF_vars(Settles)

\* BatchEditor right after it is mounted
InitBatch ==
  /\ AppInit
  /\ presets = <<>>
  /\ BatchInit
  /\ UiInit

NextBatch ==
  \/ onBatchEditClick
  \/ \E files \in FileLists : handleFileSelect(files)
  \/ processImages
  \/ \E w \in 1..CONCURRENT_LIMIT, call \in Calls : JobSettles(w, call)
  \/ handleDownloadAll

SpecBatch == InitBatch /\ [][NextBatch]_vars

\* selections of copies of x.png and of y.png
LiveFileLists == {files \in FileLists : \A k \in 1..Len(files) : files[k] # Files[2]}

\* a call that returns an image and a call that rejects
LiveCalls == {call \in Calls : call.rejects \/ CallResult(call).ok}

\* the call a running job waits for resolves or rejects
BatchSettles == \E w \in 1..CONCURRENT_LIMIT, call \in LiveCalls : JobSettles(w, call)

NextBatchLive ==
  \/ onBatchEditClick
  \/ \E files \in LiveFileLists : handleFileSelect(files)
  \/ processImages
  \/ BatchSettles

\* The batch editor when every external call ends.
SpecBatchLive == InitBatch /\ [][NextBatchLive]_vars /\ WF_vars(BatchSettles)

\* The prompt history of the start screen.
NextPrompts ==
  \/ \E n \in 1..MaxPrompts, before \in Padding, after \in Padding :
       SavePrompt(n, before, after)
  \/ \E text \in {<<>>, DefaultPrompt}, before \in Padding, after \in Padding :
       SaveNoPrompt(text, before, after)

SpecPrompts == Init /\ [][NextPrompts]_vars

\* The canvas of handleExpand, for every image size, amount and direction.
InitExpand ==
  /\ AppInit /\ BatchInit /\ PromptsInit /\ PanelsInit
  /\ args \in ExpandArgs
  /\ result = NoResult

NextExpand == DrawExpandCanvas

SpecExpand == InitExpand /\ [][NextExpand]_vars

\* The hotspot of handleImageClick, for every click and pair of sizes.
InitClick ==
  /\ AppInit /\ BatchInit /\ PromptsInit /\ PanelsInit
  /\ args \in ClickArgs
  /\ result = NoResult

NextClick == ScaleHotspot

SpecClick == InitClick /\ [][NextClick]_vars

\* Uploads, generated images and edits with the suggestions asked for
\* each new image.
NextSuggestions ==
  \/ handleImageUpload
  \/ handleGenerateFromText
  \/ \E i \in 1..MaxInflight, call \in Calls : TextResolves(i, call)
  \/ \E i \in 1..MaxInflight, call \in Calls : TextRejects(i, call)
  \/ handleExitEditor
  \/ \E file \in 0..MaxFiles : SuggestionsResolve(file)
  \/ \E file \in 0..MaxFiles : SuggestionsReject(file)
  \/ handleApplyAdjustment
  \/ \E i \in 1..MaxInflight, call \in Calls : EditResolves(i, call)
  \/ \E i \in 1..MaxInflight, call \in Calls : EditRejects(i, call)
  \/ DismissError

SpecSuggestions == Init /\ [][NextSuggestions]_vars

\* Variations of an uploaded image: the analysis of the image, the call,
\* the modal, and the ways out of the editor.
NextVariations ==
  \/ handleImageUpload
  \/ handleExitEditor
  \/ onBatchEditClick
  \/ DismissError
  \/ handleGenerateVariations
  \/ \E i \in 1..MaxInflight, ok \in BOOLEAN : VariationsAnalyzed(i, ok)
  \/ \E i \in 1..MaxInflight, ok \in BOOLEAN : ModalCallSettles(i, ok)
  \/ handleSelectVariation
  \/ CloseModal

SpecVariations == Init /\ [][NextVariations]_vars

\* The language select on the start screen, in the editor (with an
\* adjustment under way or not) and in the batch editor.
NextLanguage ==
  \/ handleImageUpload
  \/ setActiveTab("adjust")
  \/ handleApplyAdjustment
  \/ \E i \in 1..MaxInflight, call \in Calls : EditResolves(i, call)
  \/ \E i \in 1..MaxInflight, call \in Calls : EditRejects(i, call)
  \/ onBatchEditClick
  \/ handleExitEditor
  \/ DismissError
  \/ \E langCode \in Languages : handleLanguageChange(langCode)
  \/ \E i \in 1..MaxInflight : TranslateResolves(i)
  \/ \E i \in 1..MaxInflight : TranslateRejects(i)

SpecLanguage == Init /\ [][NextLanguage]_vars

\* The lasso canvas from the first point to the call that uses the mask,
\* and dataURLtoFile on every kind of data URL.
InitLasso ==
  /\ AppInit /\ BatchInit /\ PromptsInit /\ PanelsInit
  /\ args \in DataUrlArgs
  /\ result = NoResult

NextLasso ==
  \/ handleImageUpload
  \/ setActiveTab("lasso-select")
  \/ handleCanvasClick
  \/ handleUndoPoint
  \/ handleClearPoints
  \/ \E naturalWidth \in 0..1 : handleComplete(naturalWidth)
  \/ ConvertDataUrl
  \/ handleLassoGenerate

SpecLasso == InitLasso /\ [][NextLasso]_vars

\* selections of files that differ in name or in timestamp: every job has
\* an id of its own
DistinctFileLists ==
  {files \in FileLists :
     \A j, k \in 1..Len(files) : j # k => JobId(files[j]) # JobId(files[k])}

NextDownload ==
  \/ onBatchEditClick
  \/ \E files \in DistinctFileLists : handleFileSelect(files)
  \/ processImages
  \/ \E w \in 1..CONCURRENT_LIMIT, call \in Calls : JobSettles(w, call)
  \/ handleDownloadAll

SpecDownload == InitBatch /\ [][NextDownload]_vars

(* ============================== claims ================================ *)

\* C1: in every reachable state of the editor, 0 <= historyIndex <
\* history.length when the history is non-empty, and historyIndex = -1
\* exactly when the history is empty.
C1_HistoryIndexInRange ==
  /\ Len(history) > 0 => (0 <= historyIndex /\ historyIndex < Len(history))
  /\ (historyIndex = -1) <=> (Len(history) = 0)

\* the history after a push onto history h with cursor c: entries 0..c of
\* h, then one new entry holding the fresh artifact; the cursor on it
PushedOnto(h, c) ==
  /\ Len(history') = c + 2
  /\ historyIndex' = c + 1
  /\ \A k \in 1..(c + 1) : history'[k] = h[k]
  /\ history'[c + 2].file = nextFile

\* C2: a push onto a history with cursor c yields entries 0..c unchanged
\* followed by the new entry (length c+2) and cursor c+1, whatever was at
\* indices > c.  This holds of the current history and cursor, for a crop
\* and for the result of an async edit, and of the history and cursor the
\* edit was invoked on.
C2_PushTruncates ==
  [][ /\ handleApplyCrop => PushedOnto(history, historyIndex)
      /\ \A i \in 1..MaxInflight, call \in Calls :
           EditResolves(i, call) =>
             /\ PushedOnto(history, historyIndex)
             /\ PushedOnto(pending[i].hist, pending[i].idx) ]_vars

\* an edit was pushed after an undo: artifact 1 is gone, artifact 2 follows
\* the original
C2_Witness ==
  /\ Len(history) = 2
  /\ historyIndex = 1
  /\ history[1].file = 0
  /\ history[2] = HistoryItem(2, "Filter: \"noir\"")

\* C3: while one edit operation is pending, invoking any edit operation is
\* rejected, so at most one edit call is in flight at any time.
C3_SingleFlight == Len(pending) <= 1

\* C4: when the external call of an edit operation fails or is refused,
\* the history and the cursor are exactly those of the invocation, an error
\* message is set, and the current image is still the artifact the edit was
\* invoked on.
C4_FailureKeepsHistory ==
  [][ \A i \in 1..MaxInflight, call \in Calls :
        EditRejects(i, call) =>
          /\ history' = history /\ historyIndex' = historyIndex
          /\ history' = pending[i].hist /\ historyIndex' = pending[i].idx
          /\ error' # NoError
          /\ InRange(history', historyIndex')
          /\ history'[historyIndex' + 1].file = pending[i].image ]_vars

\* a filter applied to the second entry of the history was refused
C4_Witness ==
  /\ error = ErrorPrefix("handleApplyFilter") \o "Request was blocked."
  /\ Len(history) = 2
  /\ historyIndex = 1
  /\ ~isLoading
  /\ pending = <<>>

\* a step that completes pending call i (either branch of its handler)
Completes(i) ==
  \E call \in Calls :
    \/ EditResolves(i, call)
    \/ EditRejects(i, call)
    \/ PresetStepResolves(i, call)
    \/ PresetStepRejects(i, call)

\* C5: a call that was in flight when the editor was exited (or a new
\* session started) changes neither history, nor cursor, nor app mode when
\* it resolves.
C5_LateResultDiscarded ==
  [][ \A i \in 1..MaxInflight :
        (i <= Len(pending) /\ pending[i].stale /\ Completes(i))
          => UNCHANGED <<history, historyIndex, appMode>> ]_vars

\* the start screen with a history left by a late result
C5_LateWrite ==
  /\ appMode = "start"
  /\ Len(history) > 0

\* the history a replay that produced `files` for the first Len(files)
\* actions is to leave: the original entry, then one entry per step
ReplayHistory(original, actions, files) ==
  <<original>> \o
    [k \in 1..Len(files) |-> HistoryItem(files[k], "Preset: " \o actions[k])]

\* C6: when the last step of a replay of n actions succeeds, the history
\* is the original entry followed by the n step results in step order and
\* the cursor is n.
C6_PresetReplayHistory ==
  [][ \A i \in 1..MaxInflight, call \in Calls :
        (PresetStepResolves(i, call) /\ pending[i].step + 1 = Len(pending[i].actions))
          => LET op == pending[i]
                 files == Append(op.results, nextFile)
             IN  /\ history' = ReplayHistory(op.hist[1], op.actions, files)
                 /\ historyIndex' = Len(op.actions) ]_vars

\* a replay of two or more actions has ended with every step successful
C6_ReplayDone ==
  /\ pending = <<>>
  /\ ~isLoading
  /\ error = NoError
  /\ historyIndex >= 2
  /\ history # <<>>
  /\ history[Len(history)].actionDescription = "Preset: Upscale 2x"

\* C7: when step k of a replay fails the replay ends (its call is gone and
\* none follows), and the history is the original entry followed by the
\* results of steps 1..k-1 with the cursor on the last of them.
C7_PresetFailureKeepsSteps ==
  [][ \A i \in 1..MaxInflight, call \in Calls :
        PresetStepRejects(i, call)
          => LET op == pending[i]
             IN  /\ pending' = RemoveAt(pending, i)
                 /\ history' = ReplayHistory(op.hist[1], op.actions, op.results)
                 /\ historyIndex' = Len(op.results) ]_vars

\* positions of the job records that are in status st
InStatus(jobs, st) == {k \in 1..Len(jobs) : jobs[k].status = st}

\* C8: at no instant are more than 3 jobs in the processing state.
C8_AtMostThreeProcessing ==
  Cardinality(InStatus(imageJobs, "processing")) <= 3

\* positions of the records a run has enqueued and not finished
Enqueued(q, ws) ==
  {q[n].pos : n \in 1..Len(q)}
    \cup {ws[w].job.pos : w \in {v \in 1..CONCURRENT_LIMIT : ws[v].state = "running"}}

\* C9: process enqueues exactly the pending and error jobs; a done job is
\* never set back to processing and keeps its result; when every job is
\* done, process enqueues nothing and leaves every record as it is.
C9_ProcessOnlyUnfinished ==
  [][ /\ processImages =>
           /\ Enqueued(queue', workers') =
                InStatus(imageJobs, "pending") \cup InStatus(imageJobs, "error")
           /\ InStatus(imageJobs, "done") = 1..Len(imageJobs) =>
                (imageJobs' = imageJobs /\ queue' = <<>> /\ ~isProcessing')
      /\ \A k \in InStatus(imageJobs, "done") :
           /\ k <= Len(imageJobs')
           /\ imageJobs'[k].status # "processing"
           /\ imageJobs'[k].processedFile = imageJobs[k].processedFile ]_vars

\* C10: when the call of one job fails, its record gets status error with
\* the message, no other record is changed by the failure (the record of
\* the job the worker takes next becomes processing), and the worker goes
\* on with the head of the queue.
C10_FailureIsolated ==
  [][ \A w \in 1..CONCURRENT_LIMIT, call \in Calls :
        (JobSettles(w, call) /\ ~CallResult(call).ok)
          => LET job == workers[w].job
                 more == Len(queue) > 0
                 next == IF more THEN Head(queue).pos ELSE 0
             IN  /\ imageJobs'[job.pos].status = "error"
                 /\ imageJobs'[job.pos].error = CallResult(call).message
                 /\ \A k \in 1..Len(imageJobs) \ {job.pos} :
                      imageJobs'[k] =
                        IF k = next THEN [imageJobs[k] EXCEPT !.status = "processing"]
                        ELSE imageJobs[k]
                 /\ more => (queue' = Tail(queue) /\ workers'[w].job = Head(queue)) ]_vars

\* C11: when canUndo holds, undo followed by redo returns the cursor to
\* its original value, on the same history entry, with the history
\* unchanged: after the undo step, the cursor handleRedo sets is the
\* cursor from before the undo.
C11_UndoRedoRoundTrip ==
  [][ (handleUndo /\ canUndo) =>
        /\ history' = history
        /\ redoIndex' = historyIndex ]_vars

\* the cursor is past the last entry and undo is enabled
C11_CursorPastEnd ==
  /\ ~isLoading
  /\ Len(history) = 2
  /\ historyIndex = 2

\* C12: canUndo holds exactly when cursor > 0 and canRedo exactly when
\* cursor < length - 1; undo without canUndo and redo without canRedo change
\* neither cursor nor history; otherwise they move the cursor by exactly
\* one and leave the entries alone.
C12_UndoRedoSteps ==
  [][ /\ canUndo <=> historyIndex > 0
      /\ canRedo <=> historyIndex < Len(history) - 1
      /\ handleUndo =>
           /\ history' = history
           /\ historyIndex' = IF historyIndex > 0 THEN historyIndex - 1 ELSE historyIndex
      /\ handleRedo =>
           /\ history' = history
           /\ historyIndex' = IF historyIndex < Len(history) - 1
                                THEN historyIndex + 1 ELSE historyIndex ]_vars

\* the cursor stands between two entries after an undo: both are enabled
C12_Witness ==
  /\ Len(history) = 3
  /\ historyIndex = 1
  /\ ~isLoading

\* a push that appends the fresh artifact to the original entry alone
PushedOntoOriginal ==
  /\ Len(history') = 2
  /\ history'[1] = history[1]
  /\ history'[2].file = nextFile
  /\ historyIndex' = 1

SessionBoundary ==
  \/ handleImageUpload
  \/ handleExitEditor
  \/ \E i \in 1..MaxInflight, call \in Calls : TextResolves(i, call)

\* C14: within a session history entry 0 never changes: every step other
\* than an upload, a generation or an exit that starts from a non-empty
\* history leaves the same entry at index 0.
C14_OriginalKept ==
  [][ (Len(history) > 0 /\ ~SessionBoundary) =>
        (Len(history') > 0 /\ history'[1] = history[1]) ]_vars

\* C15: Exit Editor empties the history, sets the cursor to -1, clears
\* error, prompt and hotspot and returns to start mode; an upload or a generated
\* image starts a history of exactly that image with cursor 0.
C15_ExitAndStart ==
  [][ /\ handleExitEditor =>
           /\ history' = <<>> /\ historyIndex' = -1
           /\ error' = NoError /\ prompt' = "" /\ ~editHotspot'
           /\ appMode' = "start"
      /\ (handleImageUpload \/ \E i \in 1..MaxInflight, call \in Calls : TextResolves(i, call)) =>
           /\ history' = <<HistoryItem(nextFile, NoDescription)>>
           /\ historyIndex' = 0
           /\ appMode' = "single-image" ]_vars

\* a second session, started by generation after a session with an edit
\* was exited
C15_Witness ==
  /\ appMode = "single-image"
  /\ history = <<HistoryItem(2, NoDescription)>>
  /\ historyIndex = 0
  /\ originalPrompt

\* C16: when the call of an edit operation succeeds, exactly one entry
\* with an action description is appended to the history, any hotspot and
\* any lasso mask are cleared, and the editor is idle again (isLoading
\* false, no error).
C16_SuccessClearsTransients ==
  [][ \A i \in 1..MaxInflight, call \in Calls :
        EditResolves(i, call) =>
          /\ history' = Append(Slice(history, 0, historyIndex + 1),
                               history'[Len(history')])
          /\ history'[Len(history')].actionDescription # NoDescription
          /\ ~isLoading'
          /\ error' = NoError
          /\ ~maskFile'
          /\ ~editHotspot' ]_vars

\* an edit other than the localized edit succeeded with a hotspot set
C16_HotspotKept ==
  /\ editHotspot
  /\ Len(history) = 2
  /\ history[2].actionDescription = "Filter: \"noir\""
  /\ ~isLoading

\* C18: in a replay, the call of a step is made only after every earlier
\* step has resolved, and its input is the original artifact for step 1
\* and the output of the previous step for every later step.
C18_StepInputs ==
  \A i \in 1..Len(pending) :
    pending[i].handler = "handleApplyPreset" =>
      /\ Len(pending[i].results) = pending[i].step
      /\ pending[i].image = IF pending[i].step = 0
                              THEN pending[i].hist[1].file
                              ELSE pending[i].results[pending[i].step]

\* the call of the second step of a replay is in flight
C18_Witness ==
  \E i \in 1..Len(pending) :
    /\ pending[i].handler = "handleApplyPreset"
    /\ pending[i].step = 1
    /\ pending[i].image = 1

\* C19: the error of a failed preset step names the step's prompt and its
\* 1-based position: the message is the one built for that prompt and is
\* not the message built for the same failure at another position.
C19_ErrorNamesPosition ==
  [][ \A i \in 1..MaxInflight, call \in Calls :
        PresetStepRejects(i, call) =>
          LET op == pending[i]
              message == CallResult(call).message
          IN  /\ error' = presetStepError(op.actions[op.step + 1], op.step, message)
              /\ \A j \in 0..(Len(op.actions) - 1) \ {op.step} :
                   error' # presetStepError(op.actions[op.step + 1], j, message) ]_vars

C17_EventuallyIdle == isLoading ~> ~isLoading

\* expand waits for a load event that will not come
C17_ExpandHangs ==
  \E i \in 1..Len(pending) :
    /\ pending[i].handler = "handleExpand"
    /\ pending[i].phase = "never"
    /\ isLoading

\* C21: the "all finished" signal, which gates Download All, is true
\* exactly when the batch is not empty and every job is done: it is false
\* while any job is pending, processing or in error, and Download All runs
\* only when it is true.
C21_AllFinishedSignal ==
  [][ /\ allFinished <=>
           /\ Len(imageJobs) > 0
           /\ \A k \in 1..Len(imageJobs) : imageJobs[k].status = "done"
      /\ (\E k \in 1..Len(imageJobs) :
            imageJobs[k].status \in {"pending", "processing", "error"}) => ~allFinished
      /\ handleDownloadAll => InStatus(imageJobs, "done") = 1..Len(imageJobs) ]_vars

\* a batch of three jobs, all done after one of them failed and was retried,
\* has been downloaded
C21_Witness ==
  /\ allFinished
  /\ Len(imageJobs) = 3
  /\ \E k \in 1..3 : imageJobs[k].error # ""
  /\ downloaded # {}

\* the files the archive holds
ArchiveFiles == {entry.data : entry \in downloaded}
\* the result files of the done jobs
DoneFiles(jobs) == {jobs[k].processedFile : k \in InStatus(jobs, "done")}

\* C22: Download All puts the result of every done job into the archive
\* under its own filename: the archive holds exactly the results of the
\* done jobs, one entry per done job.
C22_ArchiveHasEveryResult ==
  [][ handleDownloadAll =>
        /\ ArchiveFiles' = DoneFiles(imageJobs)
        /\ \A k \in InStatus(imageJobs, "done") :
             [name |-> imageJobs[k].processedFile.name,
              data |-> imageJobs[k].processedFile] \in downloaded'
        /\ Cardinality(downloaded') = Cardinality(InStatus(imageJobs, "done")) ]_vars

\* two files of one name and different timestamps (two job ids) are done
\* and the archive holds one entry
C22_NameClash ==
  /\ Len(imageJobs) = 2
  /\ imageJobs[1].id # imageJobs[2].id
  /\ imageJobs[1].name = imageJobs[2].name
  /\ Cardinality(downloaded) = 1

\* C23: after any change of the history cursor (push, undo, redo, reset)
\* and after any change of the active tab, no hotspot and no lasso mask
\* remain set.
C23_TransientsInvalidated ==
  [][ (historyIndex' # historyIndex \/ activeTab' # activeTab) =>
        (~editHotspot' /\ ~maskFile') ]_vars

\* a hotspot has outlived a tab change, a push and an undo
C23_StaleHotspot ==
  /\ editHotspot
  /\ activeTab = "filters"
  /\ Len(history) = 2
  /\ historyIndex = 0
  /\ ~isLoading

\* no prompt occurs twice
NoTwoEqual(prompts) ==
  Cardinality({prompts[k] : k \in 1..Len(prompts)}) = Len(prompts)

\* C24: after any sequence of prompt saves the stored prompt history has
\* at most 20 entries and no two equal prompts; a save puts the saved
\* prompt first, and the save of a blank prompt or of the default
\* 'Origami,' changes nothing.
C24_PromptHistory ==
  [][ /\ Len(storedPrompts') <= 20
      /\ NoTwoEqual(storedPrompts')
      /\ \A before \in Padding, after \in Padding :
           /\ \A n \in 1..MaxPrompts :
                SavePrompt(n, before, after) => storedPrompts'[1] = Prompt(n)
           /\ \A text \in {<<>>, DefaultPrompt} :
                SaveNoPrompt(text, before, after) =>
                  (storedPrompts' = storedPrompts /\ promptHistory' = promptHistory) ]_vars

\* the history is full, its oldest prompt was dropped, and a prompt typed
\* before was saved again and stands first
C24_Witness ==
  /\ Len(storedPrompts) = 20
  /\ promptsTyped = 21
  /\ storedPrompts[1] = Prompt(2)
  /\ storedPrompts[2] = Prompt(21)
  /\ storedPrompts[20] = Prompt(3)

\* the descriptions of the entries from index 1 to the cursor, in order
DescriptionsToCursor ==
  [k \in 1..Min(historyIndex, Len(history) - 1) |-> history[k + 1].actionDescription]

\* C25: a step that adds a preset adds one preset, under a name that is
\* not blank, whose actions are the action descriptions of the history
\* entries from index 1 to the cursor, in order, and there is at least
\* one; the Save button does nothing else.
C25_SavedActions ==
  [][ /\ presets' # presets /\ Len(presets') >= Len(presets) =>
           /\ Len(presets') = Len(presets) + 1
           /\ SubSeq(presets', 1, Len(presets)) = presets
           /\ trim(presets'[Len(presets')].name) # <<>>
           /\ presets'[Len(presets')].actions = DescriptionsToCursor
           /\ DescriptionsToCursor # <<>>
      /\ \A presetName \in PresetNames :
           handleSavePreset(presetName) =>
             /\ trim(presetName) # <<>>
             /\ presets'[Len(presets')] =
                  [name |-> presetName, actions |-> DescriptionsToCursor] ]_vars

\* a preset of the one action before the cursor was saved after an undo
C25_Witness ==
  /\ Len(presets) = 1
  /\ Len(presets[1].actions) = 1
  /\ Len(history) = 3
  /\ historyIndex = 1
  /\ presets[1].actions = <<history[2].actionDescription>>

\* C26: for an image of size (w, h) and p added pixels the expand canvas
\* is (w+2p, h+2p) with the image at (p, p) for 'all', (w+2p, h) at (p, 0)
\* for 'horizontal', (w, h+2p) at (0, p) for 'vertical', (w+p, h) at (p, 0)
\* for 'left', (w+p, h) at (0, 0) for 'right', (w, h+p) at (0, p) for
\* 'top' and (w, h+p) at (0, 0) for 'bottom'.
C26_ExpandCanvas ==
  (args.of = "expandCanvas" /\ result.done) =>
    LET w == args.width
        h == args.height
        p == args.pixels
        canvas == <<result.width, result.height, result.drawX, result.drawY>>
    IN  CASE args.direction = "all"        -> canvas = <<w + 2 * p, h + 2 * p, p, p>>
          [] args.direction = "horizontal" -> canvas = <<w + 2 * p, h, p, 0>>
          [] args.direction = "vertical"   -> canvas = <<w, h + 2 * p, 0, p>>
          [] args.direction = "left"       -> canvas = <<w + p, h, p, 0>>
          [] args.direction = "right"      -> canvas = <<w + p, h, 0, 0>>
          [] args.direction = "top"        -> canvas = <<w, h + p, 0, p>>
          [] args.direction = "bottom"     -> canvas = <<w, h + p, 0, 0>>

\* a 2 x 3 image has been given 2 pixels on the left
C26_Witness ==
  /\ args.of = "expandCanvas"
  /\ args.direction = "left" /\ args.width = 2 /\ args.height = 3 /\ args.pixels = 2
  /\ result.done
  /\ result.width = 4 /\ result.drawX = 2

\* C27 as stated: the hotspot mapping is the identity when the displayed
\* and the natural size are equal, and maps (0,0) to (0,0) for any sizes.
C27_AsStated ==
  (args.of = "scalePoint" /\ result.done) =>
    /\ (args.naturalWidth = args.clientWidth /\ args.naturalHeight = args.clientHeight) =>
         (2 * result.x = args.offsetX2 /\ 2 * result.y = args.offsetY2)
    /\ (args.offsetX2 = 0 /\ args.offsetY2 = 0) => (result.x = 0 /\ result.y = 0)

\* C27: when the displayed and the natural size are equal the hotspot
\* mapping is the identity on whole coordinates and takes any other
\* coordinate to the nearest whole one, halves up; it maps (0,0) to (0,0)
\* for any pair of sizes.
C27_ScalePoint ==
  (args.of = "scalePoint" /\ result.done) =>
    /\ (args.naturalWidth = args.clientWidth /\ args.naturalHeight = args.clientHeight) =>
         /\ result.x = (args.offsetX2 + 1) \div 2
         /\ result.y = (args.offsetY2 + 1) \div 2
         /\ args.offsetX2 % 2 = 0 => 2 * result.x = args.offsetX2
         /\ args.offsetY2 % 2 = 0 => 2 * result.y = args.offsetY2
    /\ (args.offsetX2 = 0 /\ args.offsetY2 = 0) => (result.x = 0 /\ result.y = 0)

\* a click at (1.5, 2) on an image shown at its natural size 3 x 3
C27_Witness ==
  /\ args.of = "scalePoint"
  /\ args.naturalWidth = 3 /\ args.clientWidth = 3
  /\ args.naturalHeight = 3 /\ args.clientHeight = 3
  /\ args.offsetX2 = 3 /\ args.offsetY2 = 4
  /\ result.done
  /\ result.x = 2 /\ result.y = 2

\* C28: local precondition violations fail closed: dataURLtoFile rejects a
\* data URL without a comma or without a MIME type it can parse, and
\* completing a lasso of fewer than 3 points, or one whose mask has no
\* usable data URL, produces no mask; nothing of it reaches the history or
\* an external call.
C28_FailClosed ==
  [][ /\ ConvertDataUrl =>
           (result'.ok <=> (args.url.comma /\ args.url.mimeType # ""))
      /\ \A naturalWidth \in 0..1 :
           ( /\ handleComplete(naturalWidth)
             /\ (points < 3 \/ ~dataURLtoFile(toDataURL(naturalWidth)).ok) ) =>
             /\ maskFile' = maskFile
             /\ history' = history
             /\ pending' = pending ]_vars

\* a URL without a comma was rejected, and a triangle was completed on an
\* image that had not loaded: the canvas says complete, there is no mask
C28_Witness ==
  /\ args.of = "dataURLtoFile" /\ ~args.url.comma
  /\ result.done /\ ~result.ok
  /\ points = 3 /\ isComplete /\ ~maskFile

\* C29: every failure of an external call is caught at its handler and
\* turned into state the user sees: after the failure of an edit, of a
\* text-to-image generation or of a suggestions request an error message
\* is set.
C29_FailuresSurface ==
  [][ ( \/ \E i \in 1..MaxInflight, call \in Calls : EditRejects(i, call)
        \/ \E i \in 1..MaxInflight, call \in Calls : TextRejects(i, call)
        \/ \E file \in 0..MaxFiles : SuggestionsReject(file) )
      => error' # NoError ]_vars

\* the only suggestions request has failed: no error, no suggestions, and
\* the suggestions panel keeps its spinner
C29_SilentFailure ==
  /\ EditorShown /\ activeTab = "suggestions" /\ ~isLoading
  /\ Len(history) = 1 /\ nextFile = 1
  /\ suggesting = {}
  /\ editSuggestions = <<>>

\* C30: when translating the UI fails, the strings on display, the current
\* language, the stored language code and the translation cache are
\* unchanged, and the error is on the page.
C30_TranslationFails ==
  [][ (\E i \in 1..MaxInflight : TranslateRejects(i)) =>
        /\ UNCHANGED <<uiStrings, currentLanguage, storedLanguage, translationCache>>
        /\ ErrorShown' ]_vars

\* a translation has failed in the batch editor, which shows no error
C30_HiddenError ==
  /\ appMode = "batch"
  /\ error # NoError
  /\ ~isLoading /\ pending = <<>>
  /\ currentLanguage = "en"

\* the jobs the workers hold, first worker first, then the queue
TakenThenQueued(ws, q) ==
  LET Held(w) == IF ws[w].state = "running" THEN <<ws[w].job>> ELSE <<>>
  IN  Held(1) \o Held(2) \o Held(3) \o q

\* a run has ended: no job is pending or processing
RunEnded ==
  /\ ~isProcessing
  /\ \A k \in 1..Len(imageJobs) : imageJobs[k].status \in {"done", "error"}

\* C31: every job that is pending or errored when a run starts is taken
\* from the queue exactly once, in queue order (the queue handed out so
\* far and what is left are always the jobs queued at the start, and a
\* worker that settles takes the head), and is processed to done or error:
\* a run in progress ends with isProcessing false and no job pending or
\* processing, every external call resolving or rejecting.
C31_RunCompletes ==
  /\ [][ /\ processImages =>
              TakenThenQueued(workers', queue') = NewQueue(imageJobs)
         /\ \A w \in 1..CONCURRENT_LIMIT, call \in Calls :
              JobSettles(w, call) =>
                /\ \A v \in 1..CONCURRENT_LIMIT \ {w} :
                     workers[v].state = "running" =>
                       (isProcessing' => workers'[v] = workers[v])
                /\ Len(queue) > 0 =>
                     /\ workers'[w].job = Head(queue)
                     /\ queue' = Tail(queue)
                /\ Len(queue) = 0 => queue' = queue ]_vars
  /\ isProcessing ~> RunEnded

\* a run of four jobs has ended with a failure among them
C31_Witness ==
  /\ RunEnded
  /\ Len(imageJobs) = 4
  /\ InStatus(imageJobs, "error") # {}
  /\ InStatus(imageJobs, "done") # {}
  /\ queue = <<>>

\* the positions of the presets called name
Named(ps, name) == {k \in 1..Len(ps) : ps[k].name = name}

\* C32: saving a preset never replaces one: the presets that were there
\* stay as they are and one entry is added, also when its name is taken;
\* deleting by a name removes every entry of that name and keeps the
\* entries of other names, in their order.
C32_SaveAddsDeleteByName ==
  [][ /\ \A presetName \in PresetNames :
           handleSavePreset(presetName) =>
             /\ Len(presets') = Len(presets) + 1
             /\ \A k \in 1..Len(presets) : presets'[k] = presets[k]
             /\ presets'[Len(presets')].name = presetName
             /\ Cardinality(Named(presets', presetName)) =
                  Cardinality(Named(presets, presetName)) + 1
      /\ \A presetName \in PresetNames :
           handleDeletePreset(presetName) =>
             /\ Named(presets', presetName) = {}
             /\ presets' = SelectSeq(presets, LAMBDA p : p.name # presetName)
             /\ \A other \in PresetNames \ {presetName} :
                  Cardinality(Named(presets', other)) = Cardinality(Named(presets, other))
    ]_vars

\* two presets share the name "look"
C32_Witness ==
  /\ Len(presets) = 2
  /\ presets[1].name = <<"l", "o", "o", "k">>
  /\ presets[2].name = <<"l", "o", "o", "k">>
  /\ presets[2].actions = <<"Filter: \"noir\"">>

\* C33: isLoading is true in every state in which an edit, generation or
\* preset call of the session is in flight.
C33_LoadingWhileInFlight ==
  (\E i \in 1..Len(pending) :
     pending[i].handler # "handleLanguageChange" /\ ~pending[i].stale)
    => isLoading

\* an adjustment is still in flight, the translation that ended meanwhile
\* has switched the loading state off
C33_IdleWithCallPending ==
  /\ Len(pending) = 1
  /\ pending[1].handler = "handleApplyAdjustment"
  /\ ~pending[1].stale
  /\ ~isLoading
  /\ currentLanguage = "es"
  /\ error = NoError

\* C40: once a language has been translated successfully, selecting it
\* again is served from the cache and invokes no translate call, across
\* any sequence of switches: a successful translation is cached, a cached
\* translation stays cached whatever is selected next (English included),
\* and selecting a cached language starts no call.
C40_ServedFromCache ==
  [][ /\ \A i \in 1..MaxInflight :
           TranslateResolves(i) => pending[i].desc \in translationCache'
      /\ translationCache \subseteq translationCache'
      /\ \A langCode \in translationCache :
           handleLanguageChange(langCode) => pending' = pending ]_vars

\* English is selected again - so a translation had succeeded and the
\* language was in use - and no translation is cached
C40_CacheLost ==
  /\ currentLanguage = "en"
  /\ storedLanguage = "en"
  /\ translationCache = {}
  /\ pending = <<>>
  /\ ~isLoading

\* C34: a history change made while an edit is in flight is not lost:
\* when the result of the edit is pushed, the new history is the push onto
\* the history and the cursor of that moment.
C34_PushOntoCurrent ==
  [][ \A i \in 1..MaxInflight, call \in Calls :
        (EditResolves(i, call) /\ ~pending[i].stale) =>
          LET pushed == addImageToHistory(history, historyIndex, nextFile,
                                          pending[i].desc)
          IN  /\ history' = pushed.history
              /\ historyIndex' = pushed.historyIndex ]_vars

\* a filter is in flight whose handler saw another history than the
\* current one
C34_HistoryMovedOn ==
  \E i \in 1..Len(pending) :
    /\ pending[i].handler = "handleApplyFilter"
    /\ ~pending[i].stale
    /\ Len(pending[i].hist) = 2
    /\ history # pending[i].hist
    /\ Len(history) = 1
    /\ appMode = "single-image"

\* C35: the history is non-empty exactly when the app is in single-image
\* mode; in start and batch mode it is empty with cursor -1.
C35_HistoryIffEditor ==
  /\ (Len(history) > 0) <=> (appMode = "single-image")
  /\ appMode \in {"start", "batch"} => (history = <<>> /\ historyIndex = -1)

\* on the start screen, after Escape with the variations modal open and
\* the choice of a variation: a history of that one image
C35_HistoryOnStartScreen ==
  /\ appMode = "start"
  /\ Len(history) = 1
  /\ history[1].actionDescription = "Selected Variation"
  /\ historyIndex = 0
  /\ ~showVariationsModal

\* C36: the suggestions shown in a session come from the analysis of that
\* session's original image.
C36_SuggestionsOfThisSession ==
  (appMode = "single-image" /\ Len(history) > 0 /\ editSuggestions # <<>>)
    => editSuggestions = <<history[1].file>>

\* the session of the second upload shows the suggestions made for the
\* first, and no request is pending
C36_StaleSuggestions ==
  /\ EditorShown /\ activeTab = "suggestions"
  /\ history = <<HistoryItem(1, NoDescription)>>
  /\ editSuggestions = <<0>>
  /\ suggesting = {}

\* the records a step changed
ChangedJobs == {k \in 1..Len(imageJobs) : imageJobs'[k] # imageJobs[k]}

\* the records of the jobs the workers take when a run starts
StartedJobs ==
  LET q == NewQueue(imageJobs)
  IN  {q[n].pos : n \in 1..Min(CONCURRENT_LIMIT, Len(q))}

\* the record of the job worker w settles and of the job it takes next
SettledJobs(w) ==
  {workers[w].job.pos} \cup (IF Len(queue) > 0 THEN {Head(queue).pos} ELSE {})

\* C37: each status transition of a run changes the record of exactly one
\* job - the job that was taken or that settled - also when the same file
\* was added more than once.
C37_OneRecordPerTransition ==
  [][(appMode = "batch" /\ Len(imageJobs') = Len(imageJobs) /\ imageJobs' # imageJobs)
       => IF isProcessing
            THEN \E w \in 1..CONCURRENT_LIMIT :
                   workers[w].state = "running" /\ ChangedJobs = SettledJobs(w)
            ELSE ChangedJobs = StartedJobs]_vars

\* two records hold the image one call returned
C37_TwoRecordsChanged ==
  \E j, k \in 1..Len(imageJobs) :
    /\ j < k
    /\ imageJobs[j].status = "done" /\ imageJobs[k].status = "done"
    /\ imageJobs[j].processedFile = imageJobs[k].processedFile
    /\ ~isProcessing

\* handleFileSelect as it is written: the change event appends to whatever
\* the batch holds, setImageJobs(prev => [...prev, ...newJobs])
handleFileSelectAppend(files) ==
  /\ appMode = "batch"
  /\ Len(imageJobs) + Len(files) <= MaxJobs
  /\ imageJobs' = imageJobs \o [k \in 1..Len(files) |-> ImageJob(files[k])]
  /\ UNCHANGED <<appVars, uiVars, isProcessing, queue, workers, downloaded>>

\* selections of at most two files
ShortFileLists == {files \in LiveFileLists : Len(files) <= 2}

NextBatchAppend ==
  \/ onBatchEditClick
  \/ \E files \in ShortFileLists : handleFileSelectAppend(files)
  \/ processImages
  \/ BatchSettles

\* The batch editor when a selection can arrive at any time.
SpecBatchAppend == InitBatch /\ [][NextBatchAppend]_vars

\* the pending records that are not in the queue of the run in progress:
\* the run queued every record that was pending when it started
AddedDuringRun ==
  {k \in 1..Len(imageJobs) :
     /\ isProcessing
     /\ imageJobs[k].status = "pending"
     /\ \A n \in 1..Len(queue) : queue[n].pos # k}

C39_MaskOfCompleteSelection ==
  maskFile => (isComplete /\ points >= 3)

\* Undo Point after Complete: the polygon is open again with two points and
\* the mask of the triangle is still held
C39_MaskOutlivesSelection ==
  /\ PanelEnabled("lasso-select")
  /\ maskFile
  /\ ~isComplete
  /\ points = 2

====
